---------------------------- MODULE Spec2Model ----------------------------
(***************************************************************************)
(* Model of the offline synchronisation core of smart-note-app:            *)
(*   src/src/hooks/useNotes.ts     (the useNotes hook, second revision,     *)
(*                                  lines 301-733)                          *)
(*   src/src/utils/indexedDB.ts    (local store and sync queue)             *)
(*   src/src/utils/firebaseSync.ts (remote store adapter)                   *)
(*                                                                         *)
(* One browser session (device A) of one signed-in user is modelled, with  *)
(* its IndexedDB database, its in-memory React state and every asynchronous *)
(* function of the hook as a process that advances from await to await.     *)
(* A second device B acts on the shared remote store.                       *)
(*                                                                         *)
(* IndexedDB requests: every helper of indexedDB.ts starts with initDB(),   *)
(* an open request on the same database.  Open requests are served in the   *)
(* order they were made and each helper creates its transaction in the      *)
(* continuation of its open request, so requests complete in the order in   *)
(* which they were issued.  idbPending is that FIFO; the continuation of a  *)
(* request runs in the same step as its completion.                         *)
(*                                                                         *)
(* Remote calls complete in any order and each may fail.                    *)
(*                                                                         *)
(* A timestamp 0 stands for an absent updatedAt (undefined is falsy in      *)
(* `note.updatedAt || note.createdAt`); the clock starts at 1.              *)
(***************************************************************************)
EXTENDS Integers, Sequences, FiniteSets, TLC

\* ------------------------------------------------------------------ bounds
MaxClock == 2
MaxOps == 2
MaxRemoteEdits == 1
MaxNetChanges == 1
MaxIdbFaults == 1
MaxRemoteFails == 2
MaxRestarts == 1
MaxDeliveries == 1
MaxApiCalls == 1
MaxVersionCalls == 12
MaxSaves == 2

\* ------------------------------------------------------------------- notes
Ids == 1..MaxClock

NoNote == [id |-> 0, content |-> "", createdAt |-> 0, updatedAt |-> 0]

Null == 0

\* localNote.updatedAt || localNote.createdAt
Timestamp(n) == IF n.updatedAt # 0 THEN n.updatedAt ELSE n.createdAt

EmptyStore == [i \in Ids |-> NoNote]

\* ids of a list of notes, and the first note of a list with a given id
\* (Array.prototype.find), NoNote when there is none
IdsOf(list) == {list[i].id : i \in 1..Len(list)}

RECURSIVE Find(_, _)
Find(list, id) ==
  IF list = <<>> THEN NoNote
  ELSE IF Head(list).id = id THEN Head(list)
  ELSE Find(Tail(list), id)

\* the notes of a keyed store in key order: index.getAll(userId) of the
\* notes store, Object.keys(snapshot.val()) of the remote store
RECURSIVE ListFrom(_, _)
ListFrom(store, i) ==
  IF i > MaxClock THEN <<>>
  ELSE IF store[i] = NoNote THEN ListFrom(store, i + 1)
  ELSE <<store[i]>> \o ListFrom(store, i + 1)

getNotesFromIndexedDB(store) == ListFrom(store, 1)

\* The auxiliary attributes of a note (isShared, shareId, versions) are
\* carried in a field aux by the specification that is about them; an
\* optional attribute that is not there is "absent".
HasAux(n) == "aux" \in DOMAIN n

\* what set(noteRef, {title, content, createdAt, updatedAt,
\* shareId: note.shareId || null, versions: note.versions || []}) stores:
\* isShared is not among the fields written
StoredAux(a) ==
  [isShared |-> "absent",
   shareId |-> a.shareId,
   versions |-> IF a.versions = "absent" THEN "empty" ELSE a.versions]

\* what the mapping of a snapshot returns: shareId: notesData[id].shareId,
\* versions: notesData[id].versions || [], and no isShared
ReadAux(a) ==
  [isShared |-> "absent",
   shareId |-> a.shareId,
   versions |-> IF a.versions = "absent" THEN "empty" ELSE a.versions]

ReadRecord(n) == IF HasAux(n) THEN [n EXCEPT !.aux = ReadAux(@)] ELSE n

RECURSIVE ReadRecords(_)
ReadRecords(list) ==
  IF list = <<>> THEN <<>>
  ELSE <<ReadRecord(Head(list))>> \o ReadRecords(Tail(list))

loadNotesFromFirebase(store) == ReadRecords(ListFrom(store, 1))

\* set(noteRef, {..., updatedAt: note.updatedAt || Date.now(), ...})
RemoteRecord(n, t) ==
  LET timed == [n EXCEPT !.updatedAt = IF n.updatedAt # 0 THEN n.updatedAt ELSE t]
  IN  IF HasAux(n) THEN [timed EXCEPT !.aux = StoredAux(@)] ELSE timed

saveNoteToFirebase(store, n, t) == [store EXCEPT ![n.id] = RemoteRecord(n, t)]

deleteNoteFromFirebase(store, id) == [store EXCEPT ![id] = NoNote]

saveNoteToIndexedDB(store, n) == [store EXCEPT ![n.id] = n]

deleteNoteFromIndexedDB(store, id) == [store EXCEPT ![id] = NoNote]

\* ------------------------------------------------------------- mergeNotes
\* new Map(): a list of notes with distinct ids in insertion order
RECURSIVE MapSet(_, _)
MapSet(m, n) ==
  IF m = <<>> THEN <<n>>
  ELSE IF Head(m).id = n.id THEN <<n>> \o Tail(m)
  ELSE <<Head(m)>> \o MapSet(Tail(m), n)

RECURSIVE AddFirebase(_, _)
AddFirebase(m, firebaseNotes) ==
  IF firebaseNotes = <<>> THEN m
  ELSE AddFirebase(MapSet(m, Head(firebaseNotes)), Tail(firebaseNotes))

\* a comparison that gives a tie to the local note
LocalIsNewerOrTied(localNote, firebaseNote) ==
  Timestamp(localNote) >= Timestamp(firebaseNote)

\* localTimestamp > firebaseTimestamp
LocalIsNewer(localNote, firebaseNote) ==
  Timestamp(localNote) > Timestamp(firebaseNote)

\* an override step that leaves out a note the remote list does not hold
OverrideOneKnownOnly(m, localNote) ==
  LET firebaseNote == Find(m, localNote.id)
  IN  IF firebaseNote = NoNote THEN m
      ELSE IF LocalIsNewer(localNote, firebaseNote) THEN MapSet(m, localNote)
      ELSE m

\* if (!firebaseNote) set; else if (localTimestamp > firebaseTimestamp) set
OverrideOne(m, localNote) ==
  LET firebaseNote == Find(m, localNote.id)
  IN  IF firebaseNote = NoNote THEN MapSet(m, localNote)
      ELSE IF LocalIsNewer(localNote, firebaseNote) THEN MapSet(m, localNote)
      ELSE m

RECURSIVE OverrideLocal(_, _)
OverrideLocal(m, localNotes) ==
  IF localNotes = <<>> THEN m
  ELSE OverrideLocal(OverrideOne(m, Head(localNotes)), Tail(localNotes))

\* Array.prototype.sort((a, b) => b.createdAt - a.createdAt), a stable sort
RECURSIVE InsertByCreated(_, _)
InsertByCreated(sorted, n) ==
  IF sorted = <<>> THEN <<n>>
  ELSE IF Head(sorted).createdAt >= n.createdAt
       THEN <<Head(sorted)>> \o InsertByCreated(Tail(sorted), n)
       ELSE <<n>> \o sorted

RECURSIVE SortByCreatedDesc(_, _)
SortByCreatedDesc(done, rest) ==
  IF rest = <<>> THEN done
  ELSE SortByCreatedDesc(InsertByCreated(done, Head(rest)), Tail(rest))

mergeNotes(localNotes, firebaseNotes) ==
  SortByCreatedDesc(<<>>, OverrideLocal(AddFirebase(<<>>, firebaseNotes), localNotes))

\* ------------------------------------------------------------- sync queue
\* SyncQueueItem of indexedDB.ts; its key `${Date.now()}_${noteId}` is the
\* pair <<timestamp, noteId>>
QueueItem(t, operation, noteId, note) ==
  [timestamp |-> t, operation |-> operation, noteId |-> noteId, note |-> note]

\* a key order that puts the newest record first
KeyNewestFirst(a, b) ==
  \/ a.timestamp > b.timestamp
  \/ a.timestamp = b.timestamp /\ a.noteId < b.noteId

KeyBefore(a, b) ==
  \/ a.timestamp < b.timestamp
  \/ a.timestamp = b.timestamp /\ a.noteId < b.noteId

SameKey(a, b) == a.timestamp = b.timestamp /\ a.noteId = b.noteId

\* store.put(queueItem) on a store with keyPath 'id': one record per key,
\* kept in key order (the order store.getAll() returns)
RECURSIVE QueuePut(_, _)
QueuePut(q, item) ==
  IF q = <<>> THEN <<item>>
  ELSE IF SameKey(Head(q), item) THEN <<item>> \o Tail(q)
  ELSE IF KeyBefore(item, Head(q)) THEN <<item>> \o q
  ELSE <<Head(q)>> \o QueuePut(Tail(q), item)

\* a queue write that records every operation as an update
addToSyncQueueAsUpdate(q, t, operation, noteId, note) ==
  QueuePut(q, QueueItem(t, "update", noteId, note))

addToSyncQueue(q, t, operation, noteId, note) ==
  QueuePut(q, QueueItem(t, operation, noteId, note))

\* store.clear()
clearSyncQueue(q) == <<>>

\* ------------------------------------------------------------------- state
VARIABLES
  now,            \* Date.now()
  online,         \* useNetworkStatus()
  remote,         \* users/{userId}/notes of the remote database
  idb,            \* the notes store of IndexedDB
  queue,          \* the syncQueue store of IndexedDB, in key order
  notes,          \* useState<Note[]>
  editingNoteId,  \* useState<string | null>
  isSyncing,      \* useState(false)
  error,          \* useState<string | null>, TRUE when a message is set
  idbPending,     \* IndexedDB requests issued and not yet completed, oldest first
  load,           \* loadNotesFromLocal
  full,           \* syncWithFirebase
  run,            \* the runs of syncNotes: runA awaited by syncWithFirebase,
                  \* runB started by the auto-sync effect or by the caller
  cb,             \* the subscribeToNotes callback
  cr,             \* the promises createNote leaves behind
  up,             \* updateNote
  del,            \* deleteNote
  rf,             \* refreshNotes
  timers,         \* armed setTimeout(() => setEditingNoteId(null), 1000)
  left,           \* how many more events of each kind the run may hold,
                  \* and whether a request has failed so far
  hist            \* what has happened: remote saves per id, ids created, notes
                  \* created offline once and not touched since, queued
                  \* operations a replay has applied, notes deleted, notes
                  \* deleted before the restart,
                  \* the stores a resynchronisation started from

vars == <<now, online, remote, idb, queue, notes, editingNoteId, isSyncing,
          error, idbPending, load, full, run, cb, cr, up, del, rf, timers,
          left, hist>>

RunIds == {"runA", "runB"}

LocalContents == {"A"}

RunIdle == [pc |-> "idle", syncQueue |-> <<>>, i |-> 0, failed |-> FALSE]

\* editingNoteId is the marker the closure of the effect holds
FullIdle == [pc |-> "idle", editingNoteId |-> Null, firebaseNotes |-> <<>>,
             localNotes |-> <<>>, mergedNotes |-> <<>>, i |-> 0]

CbIdle == [pc |-> "idle", updatedNotes |-> <<>>, editingNoteId |-> Null,
           mergedNotes |-> <<>>, i |-> 0]

CrIdle == [note |-> NoNote, save |-> "idle", push |-> "idle"]

UpIdle == [pc |-> "idle", note |-> NoNote, isOnline |-> FALSE]

DelIdle == [pc |-> "idle", noteId |-> Null, deletedNote |-> NoNote,
            isOnline |-> FALSE]

RfIdle == [pc |-> "idle", isOnline |-> FALSE, mergedNotes |-> <<>>, i |-> 0]

\* The events of the environment, by kind, and how many of each kind a run
\* may hold.  A run holds the kinds of one profile: the model is explored
\* once per profile, and a property is checked over all of them.
Allowance ==
  [ops |-> MaxOps, edits |-> MaxRemoteEdits, net |-> MaxNetChanges,
   faults |-> MaxIdbFaults, fails |-> MaxRemoteFails, restarts |-> MaxRestarts,
   deliveries |-> MaxDeliveries, api |-> MaxApiCalls, ticks |-> MaxClock - 1]

Kinds == DOMAIN Allowance

Profiles ==
  { {"ops", "net", "fails", "faults"},
    {"ops", "fails", "edits", "ticks", "api"},
    {"ops", "fails", "restarts", "net"},
    {"ops", "faults", "api", "deliveries", "edits"} }

\* the allowances of a profile; failed records that a request has failed
LeftOf(profile) ==
  [k \in Kinds \cup {"failed"} |->
     IF k = "failed" THEN FALSE
     ELSE IF k \in profile THEN Allowance[k] ELSE 0]

HistNone == [pushes |-> [i \in Ids |-> 0], created |-> {}, offlineCreated |-> {},
             applied |-> {}, userId |-> "", enqueued |-> <<>>, versions |-> <<>>,
             deletedOk |-> {}, gone |-> {},
             before |-> [idb |-> EmptyStore, remote |-> EmptyStore, queue |-> <<>>]]

\* no asynchronous function of the session is in flight
Quiescent ==
  /\ idbPending = <<>>
  /\ load = "idle" /\ full.pc = "idle"
  /\ \A r \in RunIds : run[r].pc = "idle"
  /\ cb.pc = "idle" /\ cr.save = "idle" /\ cr.push = "idle"
  /\ up.pc = "idle" /\ del.pc = "idle" /\ rf.pc = "idle"

\* ----------------------------------------------------------------- effects
\* The load/sync effect (deps userId, isOnline, syncNotes, editingNoteId) and
\* the auto-sync effect (deps isOnline, userId, syncNotes).  Each starts its
\* asynchronous functions, which run to their first await: an IndexedDB
\* request.  One instance of each function is in flight at a time: a change
\* that re-runs an effect waits for the instances it would start again.
EffectsIdle(isOnline, autoSync) ==
  /\ load = "idle"
  /\ isOnline => full.pc = "idle" /\ run["runA"].pc = "idle"
  /\ isOnline /\ autoSync => run["runB"].pc = "idle"

StartEffects(pending, isOnline, autoSync, editing) ==
  /\ load' = "read"
  /\ full' = IF isOnline
             THEN [FullIdle EXCEPT !.pc = "waitSync", !.editingNoteId = editing]
             ELSE full
  /\ run' = [r \in RunIds |->
               IF isOnline /\ (r = "runA" \/ autoSync)
               THEN [RunIdle EXCEPT !.pc = "read"] ELSE run[r]]
  /\ isSyncing' = IF isOnline THEN TRUE ELSE isSyncing
  /\ idbPending' = pending \o <<"load">> \o
                   (IF isOnline
                    THEN <<"runA">> \o (IF autoSync THEN <<"runB">> ELSE <<>>)
                    ELSE <<>>)

EffectRun(changed, pending, isOnline, autoSync, editing) ==
  IF changed
  THEN /\ EffectsIdle(isOnline, autoSync)
       /\ StartEffects(pending, isOnline, autoSync, editing)
  ELSE idbPending' = pending /\ UNCHANGED <<load, full, run, isSyncing>>

IdbHead(p) == idbPending # <<>> /\ Head(idbPending) = p

\* a write transaction that ends in transaction.onerror
IdbFault ==
  left.faults > 0 /\ left' = [left EXCEPT !.faults = @ - 1, !.failed = TRUE]

\* a remote call whose promise is rejected
RemoteFail ==
  left.fails > 0 /\ left' = [left EXCEPT !.fails = @ - 1, !.failed = TRUE]

CountPush(id) == hist' = [hist EXCEPT !.pushes[id] = @ + 1]

\* -------------------------------------------------------------- createNote
CreateNote ==
  /\ left.ops > 0
  /\ cr.save = "idle" /\ cr.push = "idle"
  /\ LET newNote == [id |-> now, content |-> "", createdAt |-> now, updatedAt |-> now]
     IN  /\ notes' = <<newNote>> \o notes
         /\ cr' = [note |-> newNote, save |-> "pending",
                   push |-> IF online THEN "remote" ELSE "enq"]
         /\ idbPending' = idbPending \o <<"crSave">> \o
                          (IF online THEN <<>> ELSE <<"crEnq">>)
         /\ hist' = [hist EXCEPT
                       !.created = @ \cup {now},
                       !.offlineCreated = IF online \/ now \in hist.created
                                          THEN @ \ {now} ELSE @ \cup {now},
                       !.deletedOk = @ \ {now},
                       !.gone = @ \ {now}]
  /\ left' = [left EXCEPT !.ops = @ - 1]
  /\ UNCHANGED <<now, online, remote, idb, queue, editingNoteId, isSyncing,
                 error, load, full, run, cb, up, del, rf, timers>>

\* saveNoteToIndexedDB(noteWithVersion, userId) resolves
CreateSaved ==
  /\ IdbHead("crSave")
  /\ idbPending' = Tail(idbPending)
  /\ idb' = saveNoteToIndexedDB(idb, cr.note)
  /\ cr' = [cr EXCEPT !.save = "idle"]
  /\ UNCHANGED <<now, online, remote, queue, notes, editingNoteId, isSyncing,
                 error, load, full, run, cb, up, del, rf, timers, left, hist>>

\* ... or rejects: .catch(err => setError('Failed to save note locally'))
CreateSaveFailed ==
  /\ IdbHead("crSave")
  /\ IdbFault
  /\ idbPending' = Tail(idbPending)
  /\ error' = TRUE
  /\ cr' = [cr EXCEPT !.save = "idle"]
  /\ UNCHANGED <<now, online, remote, idb, queue, notes, editingNoteId,
                 isSyncing, load, full, run, cb, up, del, rf, timers, hist>>

\* saveNoteToFirebase(userId, noteWithVersion) resolves
CreatePushed ==
  /\ cr.push = "remote"
  /\ remote' = saveNoteToFirebase(remote, cr.note, now)
  /\ CountPush(cr.note.id)
  /\ cr' = [cr EXCEPT !.push = "idle"]
  /\ UNCHANGED <<now, online, idb, queue, notes, editingNoteId, isSyncing,
                 error, idbPending, load, full, run, cb, up, del, rf, timers,
                 left>>

\* ... or rejects: .catch(err => addToSyncQueue('create', ...))
CreatePushFailed ==
  /\ cr.push = "remote"
  /\ RemoteFail
  /\ CountPush(cr.note.id)
  /\ cr' = [cr EXCEPT !.push = "retry"]
  /\ idbPending' = Append(idbPending, "crEnq")
  /\ UNCHANGED <<now, online, remote, idb, queue, notes, editingNoteId,
                 isSyncing, error, load, full, run, cb, up, del, rf, timers>>

\* addToSyncQueue('create', noteWithVersion.id, noteWithVersion) completes
CreateEnqueued ==
  /\ IdbHead("crEnq")
  /\ idbPending' = Tail(idbPending)
  /\ queue' = addToSyncQueue(queue, now, "create", cr.note.id, cr.note)
  /\ cr' = [cr EXCEPT !.push = "idle"]
  /\ UNCHANGED <<now, online, remote, idb, notes, editingNoteId, isSyncing,
                 error, load, full, run, cb, up, del, rf, timers, left, hist>>

\* ... or fails: the rejection of addToSyncQueue is not handled
CreateEnqueueFailed ==
  /\ IdbHead("crEnq")
  /\ IdbFault
  /\ idbPending' = Tail(idbPending)
  /\ cr' = [cr EXCEPT !.push = "idle"]
  /\ UNCHANGED <<now, online, remote, idb, queue, notes, editingNoteId,
                 isSyncing, error, load, full, run, cb, up, del, rf, timers,
                 hist>>

\* -------------------------------------------------------------- updateNote
\* prevNotes.map(note => note.id === noteWithVersion.id ? noteWithVersion : note)
ReplaceById(list, n) ==
  [i \in 1..Len(list) |-> IF list[i].id = n.id THEN n ELSE list[i]]

\* an edit stamped with the clock reading before the current one
EditedEarlier(n, content, t) == [n EXCEPT !.content = content, !.updatedAt = t - 1]

\* { ...updatedNote, updatedAt: Date.now() } of the note the editor passes
Edited(n, content, t) == [n EXCEPT !.content = content, !.updatedAt = t]

\* updateNote up to its first await.  The caller passes a note of the list
\* with new content.
UpdateNote(n, content) ==
  /\ left.ops > 0
  /\ up.pc = "idle" /\ rf.pc = "idle"
  /\ LET noteWithVersion == Edited(n, content, now)
     IN  /\ editingNoteId' = n.id
         /\ notes' = ReplaceById(notes, noteWithVersion)
         /\ up' = [pc |-> "save", note |-> noteWithVersion, isOnline |-> online]
         /\ EffectRun(editingNoteId # n.id, Append(idbPending, "up"), online, FALSE, n.id)
  /\ left' = [left EXCEPT !.ops = @ - 1]
  /\ hist' = [hist EXCEPT !.offlineCreated = @ \ {n.id}]
  /\ UNCHANGED <<now, online, remote, idb, queue, error, cb, cr, del, rf,
                 timers>>

\* finally { setTimeout(() => setEditingNoteId(null), 1000) }, and the return
UpdateReturns == up' = UpIdle /\ timers' = timers + 1

\* catch (err) { setError(err.message); await refreshNotes(); }
UpdateCatch ==
  /\ error' = TRUE
  /\ up' = [up EXCEPT !.pc = "refresh"]
  /\ rf' = [RfIdle EXCEPT !.pc = "read", !.isOnline = up.isOnline]
  /\ idbPending' = Append(Tail(idbPending), "rf")

\* await saveNoteToIndexedDB(noteWithVersion, userId) resolves
UpdateSaved ==
  /\ IdbHead("up") /\ up.pc = "save"
  /\ idb' = saveNoteToIndexedDB(idb, up.note)
  /\ IF up.isOnline
     THEN up' = [up EXCEPT !.pc = "remote"] /\ idbPending' = Tail(idbPending)
     ELSE up' = [up EXCEPT !.pc = "enq"] /\ idbPending' = Append(Tail(idbPending), "up")
  /\ UNCHANGED <<now, online, remote, queue, notes, editingNoteId, isSyncing,
                 error, load, full, run, cb, cr, del, rf, timers, left, hist>>

UpdateSaveFailed ==
  /\ IdbHead("up") /\ up.pc = "save"
  /\ IdbFault
  /\ UpdateCatch
  /\ UNCHANGED <<now, online, remote, idb, queue, notes, editingNoteId,
                 isSyncing, load, full, run, cb, cr, del, timers, hist>>

\* await saveNoteToFirebase(userId, noteWithVersion) resolves
UpdatePushed ==
  /\ up.pc = "remote"
  /\ remote' = saveNoteToFirebase(remote, up.note, now)
  /\ CountPush(up.note.id)
  /\ error' = FALSE
  /\ UpdateReturns
  /\ UNCHANGED <<now, online, idb, queue, notes, editingNoteId, isSyncing,
                 idbPending, load, full, run, cb, cr, del, rf, left>>

\* ... or rejects: await addToSyncQueue('update', ...)
UpdatePushFailed ==
  /\ up.pc = "remote"
  /\ RemoteFail
  /\ CountPush(up.note.id)
  /\ up' = [up EXCEPT !.pc = "enq"]
  /\ idbPending' = Append(idbPending, "up")
  /\ UNCHANGED <<now, online, remote, idb, queue, notes, editingNoteId,
                 isSyncing, error, load, full, run, cb, cr, del, rf, timers>>

UpdateEnqueued ==
  /\ IdbHead("up") /\ up.pc = "enq"
  /\ idbPending' = Tail(idbPending)
  /\ queue' = addToSyncQueue(queue, now, "update", up.note.id, up.note)
  /\ error' = FALSE
  /\ UpdateReturns
  /\ UNCHANGED <<now, online, remote, idb, notes, editingNoteId, isSyncing,
                 load, full, run, cb, cr, del, rf, left, hist>>

UpdateEnqueueFailed ==
  /\ IdbHead("up") /\ up.pc = "enq"
  /\ IdbFault
  /\ UpdateCatch
  /\ UNCHANGED <<now, online, remote, idb, queue, notes, editingNoteId,
                 isSyncing, load, full, run, cb, cr, del, timers, hist>>

\* -------------------------------------------------------------- deleteNote
\* prevNotes.filter(note => note.id !== noteId)
RemoveById(list, id) == SelectSeq(list, LAMBDA n : n.id # id)

\* deleteNote up to its first await, for a note of the list
DeleteNote(noteId) ==
  /\ left.ops > 0
  /\ del.pc = "idle"
  /\ noteId \in IdsOf(notes)
  /\ del' = [pc |-> "del", noteId |-> noteId, deletedNote |-> Find(notes, noteId),
             isOnline |-> online]
  /\ notes' = RemoveById(notes, noteId)
  /\ idbPending' = Append(idbPending, "del")
  /\ left' = [left EXCEPT !.ops = @ - 1]
  /\ hist' = [hist EXCEPT !.offlineCreated = @ \ {noteId}]
  /\ UNCHANGED <<now, online, remote, idb, queue, editingNoteId, isSyncing,
                 error, load, full, run, cb, cr, up, rf, timers>>

\* setError(null) and the return
DeleteReturns ==
  /\ error' = FALSE
  /\ del' = DelIdle
  /\ hist' = [hist EXCEPT !.deletedOk = @ \cup {del.noteId}]

\* a catch block that reports the failure and leaves the list as it is
DeleteCatchNoRollback ==
  /\ error' = TRUE
  /\ del' = DelIdle
  /\ notes' = notes

\* catch (err) { setError(err.message); if (deletedNote) setNotes([...prev, deletedNote]) }
DeleteCatch ==
  /\ error' = TRUE
  /\ del' = DelIdle
  /\ notes' = IF del.deletedNote # NoNote THEN Append(notes, del.deletedNote) ELSE notes

\* await deleteNoteFromIndexedDB(noteId) resolves
DeleteLocalDone ==
  /\ IdbHead("del") /\ del.pc = "del"
  /\ idb' = deleteNoteFromIndexedDB(idb, del.noteId)
  /\ IF del.isOnline
     THEN del' = [del EXCEPT !.pc = "remote"] /\ idbPending' = Tail(idbPending)
     ELSE del' = [del EXCEPT !.pc = "enq"] /\ idbPending' = Append(Tail(idbPending), "del")
  /\ UNCHANGED <<now, online, remote, queue, notes, editingNoteId, isSyncing,
                 error, load, full, run, cb, cr, up, rf, timers, left, hist>>

DeleteLocalFailed ==
  /\ IdbHead("del") /\ del.pc = "del"
  /\ IdbFault
  /\ idbPending' = Tail(idbPending)
  /\ DeleteCatch
  /\ UNCHANGED <<now, online, remote, idb, queue, editingNoteId, isSyncing,
                 load, full, run, cb, cr, up, rf, timers, hist>>

\* await deleteNoteFromFirebase(userId, noteId) resolves
DeleteRemoteDone ==
  /\ del.pc = "remote"
  /\ remote' = deleteNoteFromFirebase(remote, del.noteId)
  /\ DeleteReturns
  /\ UNCHANGED <<now, online, idb, queue, notes, editingNoteId, isSyncing,
                 idbPending, load, full, run, cb, cr, up, rf, timers, left>>

\* ... or rejects: await addToSyncQueue('delete', noteId)
DeleteRemoteFailed ==
  /\ del.pc = "remote"
  /\ RemoteFail
  /\ del' = [del EXCEPT !.pc = "enq"]
  /\ idbPending' = Append(idbPending, "del")
  /\ UNCHANGED <<now, online, remote, idb, queue, notes, editingNoteId,
                 isSyncing, error, load, full, run, cb, cr, up, rf, timers, hist>>

DeleteEnqueued ==
  /\ IdbHead("del") /\ del.pc = "enq"
  /\ idbPending' = Tail(idbPending)
  /\ queue' = addToSyncQueue(queue, now, "delete", del.noteId, NoNote)
  /\ DeleteReturns
  /\ UNCHANGED <<now, online, remote, idb, notes, editingNoteId, isSyncing,
                 load, full, run, cb, cr, up, rf, timers, left>>

DeleteEnqueueFailed ==
  /\ IdbHead("del") /\ del.pc = "enq"
  /\ IdbFault
  /\ idbPending' = Tail(idbPending)
  /\ DeleteCatch
  /\ UNCHANGED <<now, online, remote, idb, queue, editingNoteId, isSyncing,
                 load, full, run, cb, cr, up, rf, timers, hist>>

\* --------------------------------------------------------------- syncNotes
\* the return of a run: finally { setIsSyncing(false) }; syncWithFirebase,
\* which awaits runA, goes on to load the remote notes
RunReturns(r) ==
  /\ isSyncing' = FALSE
  /\ run' = [run EXCEPT ![r] = RunIdle]
  /\ full' = IF r = "runA" /\ full.pc = "waitSync"
             THEN [full EXCEPT !.pc = "load"] ELSE full

\* a call of syncNotes by the caller of the hook while online
SyncNotesCall ==
  /\ left.api > 0
  /\ online
  /\ run["runB"].pc = "idle"
  /\ isSyncing' = TRUE
  /\ run' = [run EXCEPT !["runB"] = [RunIdle EXCEPT !.pc = "read"]]
  /\ idbPending' = Append(idbPending, "runB")
  /\ left' = [left EXCEPT !.api = @ - 1]
  /\ UNCHANGED <<now, online, remote, idb, queue, notes, editingNoteId, error,
                 load, full, cb, cr, up, del, rf, timers, hist>>

\* a call that starts a run without looking at the network state
SyncNotesUnguarded ==
  /\ left.api > 0
  /\ ~online
  /\ run["runB"].pc = "idle"
  /\ isSyncing' = TRUE
  /\ run' = [run EXCEPT !["runB"] = [RunIdle EXCEPT !.pc = "read"]]
  /\ idbPending' = Append(idbPending, "runB")
  /\ left' = [left EXCEPT !.api = @ - 1]
  /\ UNCHANGED <<now, online, remote, idb, queue, notes, editingNoteId, error,
                 load, full, cb, cr, up, del, rf, timers, hist>>

\* if (!userId || !isOnline) return;
SyncNotesOffline ==
  /\ left.api > 0
  /\ ~online
  /\ left' = [left EXCEPT !.api = @ - 1]
  /\ UNCHANGED <<now, online, remote, idb, queue, notes, editingNoteId,
                 isSyncing, error, idbPending, load, full, run, cb, cr, up,
                 del, rf, timers, hist>>

\* const syncQueue = await getSyncQueue()
RunRead(r) ==
  /\ IdbHead(r) /\ run[r].pc = "read"
  /\ idbPending' = Tail(idbPending)
  /\ IF queue = <<>>
     THEN RunReturns(r)
     ELSE /\ run' = [run EXCEPT ![r] = [pc |-> "replay", syncQueue |-> queue,
                                        i |-> 1, failed |-> FALSE]]
          /\ UNCHANGED <<isSyncing, full>>
  /\ UNCHANGED <<now, online, remote, idb, queue, notes, editingNoteId, error,
                 load, cb, cr, up, del, rf, timers, left, hist>>

\* a loop that a rejected remote call ends
RunNextAbort(r, failed) ==
  IF run[r].i < Len(run[r].syncQueue) /\ ~failed
  THEN /\ run' = [run EXCEPT ![r].i = @ + 1]
       /\ UNCHANGED idbPending
  ELSE /\ run' = [run EXCEPT ![r].pc = "clear", ![r].failed = @ \/ failed]
       /\ idbPending' = Append(idbPending, r)

\* after the remote call of item i: the next item, or await clearSyncQueue()
RunNext(r, failed) ==
  IF run[r].i < Len(run[r].syncQueue)
  THEN /\ run' = [run EXCEPT ![r].i = @ + 1, ![r].failed = @ \/ failed]
       /\ UNCHANGED idbPending
  ELSE /\ run' = [run EXCEPT ![r].pc = "clear", ![r].failed = @ \/ failed]
       /\ idbPending' = Append(idbPending, r)

\* the remote call of one drained operation resolves
RunReplay(r) ==
  /\ run[r].pc = "replay"
  /\ LET item == run[r].syncQueue[run[r].i]
     IN  IF item.operation = "delete"
         THEN /\ remote' = deleteNoteFromFirebase(remote, item.noteId)
              /\ hist' = [hist EXCEPT !.applied = @ \cup {item}]
         ELSE /\ remote' = saveNoteToFirebase(remote, item.note, now)
              /\ hist' = [hist EXCEPT !.pushes[item.noteId] = @ + 1,
                                      !.applied = @ \cup {item}]
  /\ RunNext(r, FALSE)
  /\ UNCHANGED <<now, online, idb, queue, notes, editingNoteId, isSyncing,
                 error, load, full, cb, cr, up, del, rf, timers, left>>

\* ... or rejects: catch (err) { console.error(...) }
RunReplayFailed(r) ==
  /\ run[r].pc = "replay"
  /\ RemoteFail
  /\ LET item == run[r].syncQueue[run[r].i]
     IN  IF item.operation = "delete" THEN UNCHANGED hist ELSE CountPush(item.noteId)
  /\ RunNext(r, TRUE)
  /\ UNCHANGED <<now, online, remote, idb, queue, notes, editingNoteId,
                 isSyncing, error, load, full, cb, cr, up, del, rf, timers>>

\* await clearSyncQueue() resolves
RunCleared(r) ==
  /\ IdbHead(r) /\ run[r].pc = "clear"
  /\ idbPending' = Tail(idbPending)
  /\ queue' = clearSyncQueue(queue)
  /\ RunReturns(r)
  /\ UNCHANGED <<now, online, remote, idb, notes, editingNoteId, error, load,
                 cb, cr, up, del, rf, timers, left, hist>>

\* ... or rejects: catch (err) { console.error('Error syncing notes:', err) }
RunClearFailed(r) ==
  /\ IdbHead(r) /\ run[r].pc = "clear"
  /\ IdbFault
  /\ idbPending' = Tail(idbPending)
  /\ RunReturns(r)
  /\ UNCHANGED <<now, online, remote, idb, queue, notes, editingNoteId, error,
                 load, cb, cr, up, del, rf, timers, hist>>

\* ------------------------------------------------------ loadNotesFromLocal
LoadDone ==
  /\ IdbHead("load")
  /\ idbPending' = Tail(idbPending)
  /\ notes' = getNotesFromIndexedDB(idb)
  /\ error' = FALSE
  /\ load' = "idle"
  /\ UNCHANGED <<now, online, remote, idb, queue, editingNoteId, isSyncing,
                 full, run, cb, cr, up, del, rf, timers, left, hist>>

\* -------------------------------------------------------- syncWithFirebase
\* const firebaseNotes = await loadNotesFromFirebase(userId) resolves, and
\* getNotesFromIndexedDB(userId) is requested
FullLoaded ==
  /\ full.pc = "load"
  /\ full' = [full EXCEPT !.pc = "readLocal",
                          !.firebaseNotes = loadNotesFromFirebase(remote)]
  /\ idbPending' = Append(idbPending, "full")
  /\ UNCHANGED <<now, online, remote, idb, queue, notes, editingNoteId,
                 isSyncing, error, load, run, cb, cr, up, del, rf, timers,
                 left, hist>>

\* catch (err) { console.error('Error syncing with Firebase:', err) }
FullLoadFailed ==
  /\ full.pc = "load"
  /\ RemoteFail
  /\ full' = FullIdle
  /\ UNCHANGED <<now, online, remote, idb, queue, notes, editingNoteId,
                 isSyncing, error, idbPending, load, run, cb, cr, up, del, rf,
                 timers, hist>>

\* localNote && (!firebaseNote || localTimestamp > firebaseTimestamp)
PushNeeded(note, localNotes, firebaseNotes) ==
  LET firebaseNote == Find(firebaseNotes, note.id)
      localNote == Find(localNotes, note.id)
  IN  /\ localNote # NoNote
      /\ \/ firebaseNote = NoNote
         \/ Timestamp(localNote) > Timestamp(firebaseNote)

\* the local notes arrive: mergeNotes, then the first saveNoteToIndexedDB
FullMerge ==
  /\ IdbHead("full") /\ full.pc = "readLocal"
  /\ LET localNotes == getNotesFromIndexedDB(idb)
         mergedNotes == mergeNotes(localNotes, full.firebaseNotes)
     IN  IF mergedNotes = <<>>
         THEN /\ notes' = mergedNotes
              /\ full' = FullIdle
              /\ idbPending' = Tail(idbPending)
         ELSE /\ full' = [full EXCEPT !.pc = "save", !.localNotes = localNotes,
                                      !.mergedNotes = mergedNotes, !.i = 1]
              /\ idbPending' = Append(Tail(idbPending), "full")
              /\ UNCHANGED notes
  /\ UNCHANGED <<now, online, remote, idb, queue, editingNoteId, isSyncing,
                 error, load, run, cb, cr, up, del, rf, timers, left, hist>>

\* the end of one pass of the loop: the next note, or setNotes(mergedNotes)
FullNext(pending) ==
  IF full.i < Len(full.mergedNotes)
  THEN /\ full' = [full EXCEPT !.pc = "save", !.i = @ + 1]
       /\ idbPending' = Append(pending, "full")
       /\ UNCHANGED notes
  ELSE /\ full' = FullIdle
       /\ idbPending' = pending
       /\ notes' = full.mergedNotes

\* await saveNoteToIndexedDB(note, userId) resolves
FullSaved ==
  /\ IdbHead("full") /\ full.pc = "save"
  /\ LET note == full.mergedNotes[full.i]
     IN  /\ idb' = saveNoteToIndexedDB(idb, note)
         /\ IF PushNeeded(note, full.localNotes, full.firebaseNotes)
            THEN /\ full' = [full EXCEPT !.pc = "push"]
                 /\ idbPending' = Tail(idbPending)
                 /\ UNCHANGED notes
            ELSE FullNext(Tail(idbPending))
  /\ UNCHANGED <<now, online, remote, queue, editingNoteId, isSyncing, error,
                 load, run, cb, cr, up, del, rf, timers, left, hist>>

FullSaveFailed ==
  /\ IdbHead("full") /\ full.pc = "save"
  /\ IdbFault
  /\ idbPending' = Tail(idbPending)
  /\ full' = FullIdle
  /\ UNCHANGED <<now, online, remote, idb, queue, notes, editingNoteId,
                 isSyncing, error, load, run, cb, cr, up, del, rf, timers, hist>>

\* await saveNoteToFirebase(userId, note) resolves
FullPushed ==
  /\ full.pc = "push"
  /\ remote' = saveNoteToFirebase(remote, full.mergedNotes[full.i], now)
  /\ CountPush(full.mergedNotes[full.i].id)
  /\ FullNext(idbPending)
  /\ UNCHANGED <<now, online, idb, queue, editingNoteId, isSyncing, error,
                 load, run, cb, cr, up, del, rf, timers, left>>

FullPushFailed ==
  /\ full.pc = "push"
  /\ RemoteFail
  /\ CountPush(full.mergedNotes[full.i].id)
  /\ full' = FullIdle
  /\ UNCHANGED <<now, online, remote, idb, queue, notes, editingNoteId,
                 isSyncing, error, idbPending, load, run, cb, cr, up, del, rf,
                 timers>>

\* ------------------------------------------- the subscribeToNotes callback
\* onValue delivers the remote notes to the callback of the current
\* subscription, whose closure holds editingNoteId; the callback requests the
\* local notes
Deliver ==
  /\ left.deliveries > 0
  /\ online
  /\ cb.pc = "idle"
  /\ cb' = [CbIdle EXCEPT !.pc = "read",
                          !.updatedNotes = loadNotesFromFirebase(remote),
                          !.editingNoteId = editingNoteId]
  /\ idbPending' = Append(idbPending, "cb")
  /\ left' = [left EXCEPT !.deliveries = @ - 1]
  /\ UNCHANGED <<now, online, remote, idb, queue, notes, editingNoteId,
                 isSyncing, error, load, full, run, cr, up, del, rf, timers,
                 hist>>

\* a choice that gives a tie to the local note
CallbackChoiceStrict(localNote, validFirebaseNotes, editing) ==
  LET firebaseNote == Find(validFirebaseNotes, localNote.id)
  IN  IF editing = localNote.id THEN localNote
      ELSE IF firebaseNote # NoNote
              /\ Timestamp(firebaseNote) > Timestamp(localNote)
           THEN firebaseNote
      ELSE localNote

\* the choice made for one local note by the callback
CallbackChoice(localNote, validFirebaseNotes, editing) ==
  LET firebaseNote == Find(validFirebaseNotes, localNote.id)
  IN  IF editing = localNote.id THEN localNote
      ELSE IF firebaseNote # NoNote
              /\ Timestamp(firebaseNote) >= Timestamp(localNote)
           THEN firebaseNote
      ELSE localNote

\* a merge that keeps only the local notes the snapshot holds
CallbackMergeDelivered(localNotes, updatedNotes, editing) ==
  LET known == SelectSeq(localNotes, LAMBDA n : n.id \in IdsOf(updatedNotes))
  IN  [i \in 1..Len(known) |-> CallbackChoice(known[i], updatedNotes, editing)]

\* updatedNotes.filter(...) and localNotes.map(...)
CallbackMerge(localNotes, updatedNotes, editing) ==
  LET validFirebaseNotes ==
        SelectSeq(updatedNotes, LAMBDA fn : fn.id \in IdsOf(localNotes))
  IN  [i \in 1..Len(localNotes) |->
         CallbackChoice(localNotes[i], validFirebaseNotes, editing)]

\* the first index from i on of a note the loop saves
\* (if (note.id !== editingNoteId)), 0 when there is none
RECURSIVE NextToSave(_, _, _)
NextToSave(list, i, editing) ==
  IF i > Len(list) THEN 0
  ELSE IF list[i].id # editing THEN i
  ELSE NextToSave(list, i + 1, editing)

CbNext(mergedNotes, i) ==
  LET j == NextToSave(mergedNotes, i, cb.editingNoteId)
  IN  IF j = 0
      THEN cb' = CbIdle /\ idbPending' = Tail(idbPending)
      ELSE /\ cb' = [cb EXCEPT !.pc = "save", !.mergedNotes = mergedNotes, !.i = j]
           /\ idbPending' = Append(Tail(idbPending), "cb")

\* the local notes arrive: merge, setNotes(mergedNotes), first save
CbMerge ==
  /\ IdbHead("cb") /\ cb.pc = "read"
  /\ LET mergedNotes ==
           CallbackMerge(getNotesFromIndexedDB(idb), cb.updatedNotes, cb.editingNoteId)
     IN  notes' = mergedNotes /\ CbNext(mergedNotes, 1)
  /\ UNCHANGED <<now, online, remote, idb, queue, editingNoteId, isSyncing,
                 error, load, full, run, cr, up, del, rf, timers, left, hist>>

\* await saveNoteToIndexedDB(note, userId) resolves
CbSaved ==
  /\ IdbHead("cb") /\ cb.pc = "save"
  /\ idb' = saveNoteToIndexedDB(idb, cb.mergedNotes[cb.i])
  /\ CbNext(cb.mergedNotes, cb.i + 1)
  /\ UNCHANGED <<now, online, remote, queue, notes, editingNoteId, isSyncing,
                 error, load, full, run, cr, up, del, rf, timers, left, hist>>

\* ... or rejects: the callback ends
CbSaveFailed ==
  /\ IdbHead("cb") /\ cb.pc = "save"
  /\ IdbFault
  /\ idbPending' = Tail(idbPending)
  /\ cb' = CbIdle
  /\ UNCHANGED <<now, online, remote, idb, queue, notes, editingNoteId,
                 isSyncing, error, load, full, run, cr, up, del, rf, timers,
                 hist>>

\* ------------------------------------------------------------ refreshNotes
\* the return of refreshNotes; updateNote, when it awaits it, returns too
RfReturns ==
  /\ rf' = RfIdle
  /\ IF up.pc = "refresh" THEN UpdateReturns ELSE UNCHANGED <<up, timers>>

\* a call of refreshNotes by the caller of the hook
RefreshNotes ==
  /\ left.api > 0
  /\ rf.pc = "idle" /\ up.pc = "idle"
  /\ rf' = [RfIdle EXCEPT !.pc = "read", !.isOnline = online]
  /\ idbPending' = Append(idbPending, "rf")
  /\ left' = [left EXCEPT !.api = @ - 1]
  /\ UNCHANGED <<now, online, remote, idb, queue, notes, editingNoteId,
                 isSyncing, error, load, full, run, cb, cr, up, del, timers,
                 hist>>

\* const localNotes = await getNotesFromIndexedDB(userId); setNotes(localNotes)
RfRead ==
  /\ IdbHead("rf") /\ rf.pc = "read"
  /\ idbPending' = Tail(idbPending)
  /\ notes' = getNotesFromIndexedDB(idb)
  /\ IF rf.isOnline
     THEN /\ rf' = [rf EXCEPT !.pc = "load", !.mergedNotes = getNotesFromIndexedDB(idb)]
          /\ UNCHANGED <<error, up, timers>>
     ELSE error' = FALSE /\ RfReturns
  /\ UNCHANGED <<now, online, remote, idb, queue, editingNoteId, isSyncing,
                 load, full, run, cb, cr, del, left, hist>>

\* a refresh that gives a tie to the local note
RefreshMergeStrict(localNotes, firebaseNotes) ==
  [i \in 1..Len(localNotes) |->
     CallbackChoiceStrict(localNotes[i], firebaseNotes, Null)]

\* firebaseTimestamp >= localTimestamp ? firebaseNote : localNote
RefreshMerge(localNotes, firebaseNotes) ==
  CallbackMerge(localNotes, firebaseNotes, Null)

\* const firebaseNotes = await loadNotesFromFirebase(userId) resolves
RfLoaded ==
  /\ rf.pc = "load"
  /\ LET mergedNotes == RefreshMerge(rf.mergedNotes, loadNotesFromFirebase(remote))
     IN  /\ notes' = mergedNotes
         /\ IF mergedNotes = <<>>
            THEN error' = FALSE /\ RfReturns /\ UNCHANGED idbPending
            ELSE /\ rf' = [rf EXCEPT !.pc = "save", !.mergedNotes = mergedNotes, !.i = 1]
                 /\ idbPending' = Append(idbPending, "rf")
                 /\ UNCHANGED <<error, up, timers>>
  /\ UNCHANGED <<now, online, remote, idb, queue, editingNoteId, isSyncing,
                 load, full, run, cb, cr, del, left, hist>>

\* catch (err) { setError(err.message) }
RfLoadFailed ==
  /\ rf.pc = "load"
  /\ RemoteFail
  /\ error' = TRUE
  /\ RfReturns
  /\ UNCHANGED <<now, online, remote, idb, queue, notes, editingNoteId,
                 isSyncing, idbPending, load, full, run, cb, cr, del, hist>>

RfSaved ==
  /\ IdbHead("rf") /\ rf.pc = "save"
  /\ idb' = saveNoteToIndexedDB(idb, rf.mergedNotes[rf.i])
  /\ IF rf.i < Len(rf.mergedNotes)
     THEN /\ rf' = [rf EXCEPT !.i = @ + 1]
          /\ idbPending' = Append(Tail(idbPending), "rf")
          /\ UNCHANGED <<error, up, timers>>
     ELSE /\ idbPending' = Tail(idbPending)
          /\ error' = FALSE
          /\ RfReturns
  /\ UNCHANGED <<now, online, remote, queue, notes, editingNoteId, isSyncing,
                 load, full, run, cb, cr, del, left, hist>>

RfSaveFailed ==
  /\ IdbHead("rf") /\ rf.pc = "save"
  /\ IdbFault
  /\ idbPending' = Tail(idbPending)
  /\ error' = TRUE
  /\ RfReturns
  /\ UNCHANGED <<now, online, remote, idb, queue, notes, editingNoteId,
                 isSyncing, load, full, run, cb, cr, del, hist>>

\* ------------------------------------------------------------- environment
Tick ==
  /\ left.ticks > 0
  /\ now' = now + 1
  /\ left' = [left EXCEPT !.ticks = @ - 1]
  /\ UNCHANGED <<online, remote, idb, queue, notes, editingNoteId, isSyncing,
                 error, idbPending, load, full, run, cb, cr, up, del, rf,
                 timers, hist>>

\* window 'online' event: both effects run again
GoOnline ==
  /\ left.net > 0
  /\ ~online
  /\ online' = TRUE
  /\ EffectRun(TRUE, idbPending, TRUE, TRUE, editingNoteId)
  /\ left' = [left EXCEPT !.net = @ - 1]
  /\ UNCHANGED <<now, remote, idb, queue, notes, editingNoteId, error, cb, cr,
                 up, del, rf, timers, hist>>

\* window 'offline' event: the load effect runs again
GoOffline ==
  /\ left.net > 0
  /\ online
  /\ online' = FALSE
  /\ EffectRun(TRUE, idbPending, FALSE, FALSE, editingNoteId)
  /\ left' = [left EXCEPT !.net = @ - 1]
  /\ UNCHANGED <<now, remote, idb, queue, notes, editingNoteId, error, cb, cr,
                 up, del, rf, timers, hist>>

\* setTimeout(() => setEditingNoteId(null), 1000) fires
ClearEditing ==
  /\ timers > 0
  /\ timers' = timers - 1
  /\ editingNoteId' = Null
  /\ EffectRun(editingNoteId # Null, idbPending, online, FALSE, Null)
  /\ UNCHANGED <<now, online, remote, idb, queue, notes, error, cb, cr, up,
                 del, rf, left, hist>>

\* setEditingNote(noteId) by the editing surface, for a note of the list
SetEditingNote(noteId) ==
  /\ left.api > 0
  /\ noteId \in IdsOf(notes)
  /\ editingNoteId' = noteId
  /\ EffectRun(editingNoteId # noteId, idbPending, online, FALSE, noteId)
  /\ left' = [left EXCEPT !.api = @ - 1]
  /\ UNCHANGED <<now, online, remote, idb, queue, notes, error, cb, cr, up,
                 del, rf, timers, hist>>

\* device B edits a note of the remote store
RemoteEdit(id) ==
  /\ left.edits > 0
  /\ remote[id] # NoNote
  /\ remote' = [remote EXCEPT ![id] = [@ EXCEPT !.content = "B", !.updatedAt = now]]
  /\ left' = [left EXCEPT !.edits = @ - 1]
  /\ UNCHANGED <<now, online, idb, queue, notes, editingNoteId, isSyncing,
                 error, idbPending, load, full, run, cb, cr, up, del, rf,
                 timers, hist>>

\* the browser is closed and opened again: the in-memory state is lost, the
\* IndexedDB database is kept, and the hook mounts
Mounted(isOnline) ==
  /\ notes' = <<>>
  /\ editingNoteId' = Null
  /\ error' = FALSE
  /\ timers' = 0
  /\ cb' = CbIdle /\ cr' = CrIdle /\ up' = UpIdle /\ del' = DelIdle /\ rf' = RfIdle
  /\ load' = "read"
  /\ full' = IF isOnline THEN [FullIdle EXCEPT !.pc = "waitSync"] ELSE FullIdle
  /\ run' = [r \in RunIds |-> IF isOnline THEN [RunIdle EXCEPT !.pc = "read"] ELSE RunIdle]
  /\ isSyncing' = isOnline
  /\ idbPending' = IF isOnline THEN <<"load", "runA", "runB">> ELSE <<"load">>

Restart ==
  /\ left.restarts > 0
  /\ Quiescent
  /\ Mounted(online)
  /\ left' = [left EXCEPT !.restarts = @ - 1]
  /\ hist' = [hist EXCEPT !.gone = hist.deletedOk]
  /\ UNCHANGED <<now, online, remote, idb, queue>>

\* ---------------------------------------------------------- specification
\* a fresh installation: empty stores, the hook has just mounted
Init ==
  /\ now = 1
  /\ online \in BOOLEAN
  /\ remote = EmptyStore
  /\ idb = EmptyStore
  /\ queue = <<>>
  /\ notes = <<>>
  /\ editingNoteId = Null
  /\ error = FALSE
  /\ timers = 0
  /\ cb = CbIdle /\ cr = CrIdle /\ up = UpIdle /\ del = DelIdle /\ rf = RfIdle
  /\ load = "read"
  /\ full = IF online THEN [FullIdle EXCEPT !.pc = "waitSync"] ELSE FullIdle
  /\ run = [r \in RunIds |-> IF online THEN [RunIdle EXCEPT !.pc = "read"] ELSE RunIdle]
  /\ isSyncing = online
  /\ idbPending = IF online THEN <<"load", "runA", "runB">> ELSE <<"load">>
  /\ \E profile \in Profiles : left = LeftOf(profile)
  /\ hist = HistNone

Next ==
  \/ CreateNote \/ CreateSaved \/ CreateSaveFailed \/ CreatePushed
  \/ CreatePushFailed \/ CreateEnqueued \/ CreateEnqueueFailed
  \/ \E i \in 1..Len(notes) : \E c \in LocalContents : UpdateNote(notes[i], c)
  \/ UpdateSaved \/ UpdateSaveFailed \/ UpdatePushed \/ UpdatePushFailed
  \/ UpdateEnqueued \/ UpdateEnqueueFailed
  \/ \E id \in Ids : DeleteNote(id)
  \/ DeleteLocalDone \/ DeleteLocalFailed \/ DeleteRemoteDone
  \/ DeleteRemoteFailed \/ DeleteEnqueued \/ DeleteEnqueueFailed
  \/ SyncNotesCall \/ SyncNotesOffline
  \/ \E r \in RunIds : RunRead(r) \/ RunReplay(r) \/ RunReplayFailed(r)
                       \/ RunCleared(r) \/ RunClearFailed(r)
  \/ LoadDone
  \/ FullLoaded \/ FullLoadFailed \/ FullMerge \/ FullSaved \/ FullSaveFailed
  \/ FullPushed \/ FullPushFailed
  \/ Deliver \/ CbMerge \/ CbSaved \/ CbSaveFailed
  \/ RefreshNotes \/ RfRead \/ RfLoaded \/ RfLoadFailed \/ RfSaved \/ RfSaveFailed
  \/ Tick \/ GoOnline \/ GoOffline \/ ClearEditing
  \/ \E id \in Ids : SetEditingNote(id)
  \/ \E id \in Ids : RemoteEdit(id)
  \/ Restart

Spec == Init /\ [][Next]_vars

\* ------------------------------------------- resynchronisation on its own
\* The load/sync effect has just run while online, from any local store, any
\* remote store, at most one queued operation and any editing marker; no
\* other function of the hook is called and no request fails.
ResyncNotes(id) ==
  {NoNote} \cup
  {[id |-> id, content |-> c, createdAt |-> id, updatedAt |-> u] :
     c \in {"A", "B"}, u \in {0} \cup id..MaxClock}

ResyncStores ==
  {s \in [Ids -> UNION {ResyncNotes(i) : i \in Ids}] :
     \A i \in Ids : s[i] \in ResyncNotes(i)}

\* nothing queued, or the last local edit of a note, or the delete of a note
ResyncQueues(store, t) ==
  {<<>>}
  \cup {<<QueueItem(t, operation, i, store[i])>> :
          operation \in {"create", "update"},
          i \in {j \in Ids : store[j].content = "A" /\ store[j].updatedAt # 0}}
  \cup {<<QueueItem(t, "delete", i, NoNote)>> : i \in {j \in Ids : store[j] = NoNote}}

ResyncInit ==
  /\ now = MaxClock
  /\ online = TRUE
  /\ remote \in ResyncStores
  /\ idb \in ResyncStores
  /\ queue \in ResyncQueues(idb, now)
  /\ notes = <<>>
  /\ editingNoteId \in {Null} \cup {i \in Ids : idb[i] # NoNote}
  /\ error = FALSE
  /\ timers = 0
  /\ cb = CbIdle /\ cr = CrIdle /\ up = UpIdle /\ del = DelIdle /\ rf = RfIdle
  /\ load = "read"
  /\ full = [FullIdle EXCEPT !.pc = "waitSync", !.editingNoteId = editingNoteId]
  /\ \E autoSync \in BOOLEAN :
       /\ run = [r \in RunIds |->
                   IF r = "runA" \/ autoSync
                   THEN [RunIdle EXCEPT !.pc = "read"] ELSE RunIdle]
       /\ idbPending = <<"load", "runA">> \o (IF autoSync THEN <<"runB">> ELSE <<>>)
  /\ isSyncing = TRUE
  /\ left = LeftOf({})
  /\ hist = [HistNone EXCEPT
               !.before = [idb |-> idb, remote |-> remote, queue |-> queue]]

ResyncNext ==
  \/ LoadDone
  \/ \E r \in RunIds : RunRead(r) \/ RunReplay(r) \/ RunCleared(r)
  \/ FullLoaded \/ FullMerge \/ FullSaved \/ FullPushed

ResyncSpec == ResyncInit /\ [][ResyncNext]_vars

\* ------------------------------------------------------ the merge on its own
\* syncWithFirebase is about to load the remote notes, from any local store
\* and any remote store; nothing else is in flight and no request fails.
MergeInit ==
  /\ now = MaxClock
  /\ online = TRUE
  /\ remote \in ResyncStores
  /\ idb \in ResyncStores
  /\ queue = <<>>
  /\ notes = getNotesFromIndexedDB(idb)
  /\ editingNoteId = Null
  /\ isSyncing = FALSE
  /\ error = FALSE
  /\ timers = 0
  /\ idbPending = <<>>
  /\ load = "idle"
  /\ full = [FullIdle EXCEPT !.pc = "load"]
  /\ run = [r \in RunIds |-> RunIdle]
  /\ cb = CbIdle /\ cr = CrIdle /\ up = UpIdle /\ del = DelIdle /\ rf = RfIdle
  /\ left = LeftOf({})
  /\ hist = [HistNone EXCEPT
               !.before = [idb |-> idb, remote |-> remote, queue |-> queue]]

MergeNext == FullLoaded \/ FullMerge \/ FullSaved \/ FullPushed

MergeSpec == MergeInit /\ [][MergeNext]_vars

\* --------------------------------------------------- a delivery on its own
\* The session is online and at rest, with any local store, any remote store
\* and any editing marker; remote snapshots are delivered to the callback and
\* no request fails.
DeliveryInit ==
  /\ now = MaxClock
  /\ online = TRUE
  /\ remote \in ResyncStores
  /\ idb \in ResyncStores
  /\ queue = <<>>
  /\ notes = getNotesFromIndexedDB(idb)
  /\ editingNoteId \in {Null} \cup {i \in Ids : idb[i] # NoNote}
  /\ isSyncing = FALSE
  /\ error = FALSE
  /\ timers = 0
  /\ idbPending = <<>>
  /\ load = "idle"
  /\ full = FullIdle
  /\ run = [r \in RunIds |-> RunIdle]
  /\ cb = CbIdle /\ cr = CrIdle /\ up = UpIdle /\ del = DelIdle /\ rf = RfIdle
  /\ left = LeftOf({"deliveries"})
  /\ hist = [HistNone EXCEPT
               !.before = [idb |-> idb, remote |-> remote, queue |-> queue]]

DeliveryNext == Deliver \/ CbMerge \/ CbSaved

DeliverySpec == DeliveryInit /\ [][DeliveryNext]_vars

\* ------------------------------------------- the next user of the browser
\* signOut() only signs out of Firebase and the database name is fixed, so a
\* session of another user opens the object stores the previous session
\* left.  A queue record carries no owner: what the previous user's session
\* enqueued is what getSyncQueue() returns to this one.
PreviousOwnerNotes(id) ==
  {[id |-> id, content |-> "P", createdAt |-> id, updatedAt |-> u] :
     u \in {0} \cup id..MaxClock}

PreviousOwnerQueues(t) ==
  {<<QueueItem(t, operation, i, n)>> :
     operation \in {"create", "update"},
     i \in Ids, n \in UNION {PreviousOwnerNotes(j) : j \in Ids}}
  \cup {<<QueueItem(t, "delete", i, NoNote)>> : i \in Ids}

\* the new user's session mounts online: remote is the new user's partition,
\* idb is what getNotesFromIndexedDB(userId) returns for the new user
OwnerInit ==
  /\ now = MaxClock
  /\ online = TRUE
  /\ remote \in ResyncStores
  /\ idb \in ResyncStores
  /\ queue \in {q \in PreviousOwnerQueues(now) :
                  q[1].operation = "delete" \/ q[1].note.id = q[1].noteId}
  /\ notes = <<>>
  /\ editingNoteId = Null
  /\ error = FALSE
  /\ timers = 0
  /\ cb = CbIdle /\ cr = CrIdle /\ up = UpIdle /\ del = DelIdle /\ rf = RfIdle
  /\ load = "read"
  /\ full = [FullIdle EXCEPT !.pc = "waitSync"]
  /\ run = [r \in RunIds |->
              IF r = "runA" THEN [RunIdle EXCEPT !.pc = "read"] ELSE RunIdle]
  /\ idbPending = <<"load", "runA">>
  /\ isSyncing = TRUE
  /\ left = LeftOf({})
  /\ hist = [HistNone EXCEPT
               !.before = [idb |-> idb, remote |-> remote, queue |-> queue]]

OwnerNext ==
  \/ LoadDone
  \/ \E r \in RunIds : RunRead(r) \/ RunReplay(r) \/ RunCleared(r)
  \/ FullLoaded \/ FullMerge \/ FullSaved \/ FullPushed

OwnerSpec == OwnerInit /\ [][OwnerNext]_vars

\* ------------------------------------------------ the notes store itself
\* The object store 'notes' has keyPath 'id' and a non-unique index on
\* userId.  Here idb holds the records as they are stored, each with the
\* userId saveNoteToIndexedDB added; in the other specifications idb is
\* RecordsOf(records, userId) for the one user of the session.
Users == {"u1", "u2"}

NoRecord == [note |-> NoNote, userId |-> ""]

\* store.put({ ...note, userId })
PutRecord(records, note, userId) ==
  [records EXCEPT ![note.id] = [note |-> note, userId |-> userId]]

\* store.delete(noteId)
DeleteRecord(records, noteId) == [records EXCEPT ![noteId] = NoRecord]

\* index.getAll(userId), then ({ userId, ...note }) => note
RecordsOf(records, userId) ==
  [i \in Ids |-> IF records[i].userId = userId THEN records[i].note ELSE NoNote]

StoreInit ==
  /\ now = MaxClock
  /\ online = TRUE
  /\ remote = EmptyStore
  /\ idb = [i \in Ids |-> NoRecord]
  /\ queue = <<>>
  /\ notes = <<>>
  /\ editingNoteId = Null
  /\ isSyncing = FALSE
  /\ error = FALSE
  /\ timers = 0
  /\ idbPending = <<>>
  /\ load = "idle"
  /\ full = FullIdle
  /\ run = [r \in RunIds |-> RunIdle]
  /\ cb = CbIdle /\ cr = CrIdle /\ up = UpIdle /\ del = DelIdle /\ rf = RfIdle
  /\ left = LeftOf({})
  /\ \E u \in Users : hist = [HistNone EXCEPT !.userId = u]

StoreUnchanged ==
  UNCHANGED <<now, online, remote, queue, notes, editingNoteId, isSyncing,
              error, idbPending, load, full, run, cb, cr, up, del, rf,
              timers, left>>

\* another user signs in: useNotes is called with the new user.uid
SignIn(userId) ==
  /\ userId # hist.userId
  /\ hist' = [hist EXCEPT !.userId = userId]
  /\ UNCHANGED idb
  /\ StoreUnchanged

\* saveNoteToIndexedDB(note, userId) of the signed-in user resolves
StoreSave(note) ==
  /\ idb' = PutRecord(idb, note, hist.userId)
  /\ UNCHANGED hist
  /\ StoreUnchanged

\* deleteNoteFromIndexedDB(noteId) resolves
StoreDelete(noteId) ==
  /\ idb' = DeleteRecord(idb, noteId)
  /\ UNCHANGED hist
  /\ StoreUnchanged

StoreNext ==
  \/ \E u \in Users : SignIn(u)
  \/ \E i \in Ids : \E note \in ResyncNotes(i) \ {NoNote} : StoreSave(note)
  \/ \E i \in Ids : StoreDelete(i)

StoreSpec == StoreInit /\ [][StoreNext]_vars

\* --------------------------------------------- one operation, two replays
\* Two calls of syncNotes are in flight (the load effect's and the auto-sync
\* effect's), the queue holds one operation of any kind carrying any note
\* the Note type admits, and time may pass between the two replays.
PushQueues(t) ==
  {<<QueueItem(t, operation, n.id, n)>> :
     operation \in {"create", "update"},
     n \in UNION {ResyncNotes(i) \ {NoNote} : i \in Ids}}
  \cup {<<QueueItem(t, "delete", i, NoNote)>> : i \in Ids}

PushInit ==
  /\ now = 1
  /\ online = TRUE
  /\ remote \in ResyncStores
  /\ idb = EmptyStore
  /\ queue \in PushQueues(now)
  /\ notes = <<>>
  /\ editingNoteId = Null
  /\ error = FALSE
  /\ timers = 0
  /\ cb = CbIdle /\ cr = CrIdle /\ up = UpIdle /\ del = DelIdle /\ rf = RfIdle
  /\ load = "idle"
  /\ full = FullIdle
  /\ run = [r \in RunIds |-> [RunIdle EXCEPT !.pc = "read"]]
  /\ idbPending = <<"runA", "runB">>
  /\ isSyncing = TRUE
  /\ left = LeftOf({"ticks"})
  /\ hist = [HistNone EXCEPT
               !.before = [idb |-> idb, remote |-> remote, queue |-> queue]]

PushNext ==
  \/ \E r \in RunIds : RunRead(r) \/ RunReplay(r) \/ RunCleared(r)
  \/ Tick

PushSpec == PushInit /\ [][PushNext]_vars

\* ------------------------------------------------------ the queue itself
\* addToSyncQueue is called with any operation for any note id at the
\* current clock reading, time may pass between calls, and one call of
\* syncNotes drains and replays what the store holds.  hist.enqueued lists
\* the records in the order the calls were made.
QueueInit ==
  /\ now = 1
  /\ online = TRUE
  /\ remote = EmptyStore
  /\ idb = EmptyStore
  /\ queue = <<>>
  /\ notes = <<>>
  /\ editingNoteId = Null
  /\ isSyncing = FALSE
  /\ error = FALSE
  /\ timers = 0
  /\ idbPending = <<>>
  /\ load = "idle"
  /\ full = FullIdle
  /\ run = [r \in RunIds |-> RunIdle]
  /\ cb = CbIdle /\ cr = CrIdle /\ up = UpIdle /\ del = DelIdle /\ rf = RfIdle
  /\ left = LeftOf({"ops", "ticks", "api"})
  /\ hist = HistNone

\* addToSyncQueue(operation, noteId, note) completes
QueueAdd(operation, noteId) ==
  /\ left.ops > 0
  /\ run["runB"].pc = "idle"
  /\ LET note == IF operation = "delete" THEN NoNote
                 ELSE [id |-> noteId, content |-> "A", createdAt |-> noteId,
                       updatedAt |-> now]
     IN  /\ queue' = addToSyncQueue(queue, now, operation, noteId, note)
         /\ hist' = [hist EXCEPT
                       !.enqueued = Append(@, QueueItem(now, operation, noteId, note))]
  /\ left' = [left EXCEPT !.ops = @ - 1]
  /\ UNCHANGED <<now, online, remote, idb, notes, editingNoteId, isSyncing,
                 error, idbPending, load, full, run, cb, cr, up, del, rf,
                 timers>>

QueueNext ==
  \/ \E operation \in {"create", "update", "delete"}, noteId \in Ids :
       QueueAdd(operation, noteId)
  \/ Tick
  \/ SyncNotesCall
  \/ \E r \in RunIds : RunRead(r) \/ RunReplay(r) \/ RunCleared(r)

QueueSpec == QueueInit /\ [][QueueNext]_vars

\* ------------------------------------------------- auxiliary attributes
\* The local store holds one note with any auxiliary attributes and the
\* remote store is empty; the session synchronizes (the note is pushed) and
\* the snapshot is then delivered to the subscription callback.
AuxValues ==
  [isShared : {"absent", "true", "false"},
   shareId : {"absent", "s1"},
   versions : {"absent", "empty", "some"}]

AuxNotes ==
  UNION {{[id |-> i, content |-> "A", createdAt |-> i, updatedAt |-> u, aux |-> a] :
            u \in i..MaxClock, a \in AuxValues} : i \in Ids}

AuxInit ==
  /\ now = MaxClock
  /\ online = TRUE
  /\ remote = EmptyStore
  /\ \E n \in AuxNotes : idb = saveNoteToIndexedDB(EmptyStore, n)
  /\ queue = <<>>
  /\ notes = getNotesFromIndexedDB(idb)
  /\ editingNoteId = Null
  /\ isSyncing = FALSE
  /\ error = FALSE
  /\ timers = 0
  /\ idbPending = <<>>
  /\ load = "idle"
  /\ full = [FullIdle EXCEPT !.pc = "load"]
  /\ run = [r \in RunIds |-> RunIdle]
  /\ cb = CbIdle /\ cr = CrIdle /\ up = UpIdle /\ del = DelIdle /\ rf = RfIdle
  /\ left = LeftOf({"deliveries"})
  /\ hist = [HistNone EXCEPT
               !.before = [idb |-> idb, remote |-> remote, queue |-> queue]]

AuxNext ==
  \/ FullLoaded \/ FullMerge \/ FullSaved \/ FullPushed
  \/ Deliver \/ CbMerge \/ CbSaved

AuxSpec == AuxInit /\ [][AuxNext]_vars

\* ------------------------------------------------------------ cold start
\* The hook mounts online on any local store, remote store and queue; both
\* effects run in the first commit, nothing is being edited, and afterwards
\* the user does nothing and the network does not change.
ColdStartInit ==
  /\ ResyncInit
  /\ editingNoteId = Null
  /\ run["runB"].pc = "read"

ColdStartNext ==
  \/ LoadDone
  \/ \E r \in RunIds : RunRead(r) \/ RunReplay(r) \/ RunCleared(r)
  \/ FullLoaded \/ FullMerge \/ FullSaved \/ FullPushed

ColdStartSpec == ColdStartInit /\ [][ColdStartNext]_vars

\* ------------------------------------------- a note from another session
\* The session is online, subscribed and at rest, local and remote store
\* hold the same notes.  Another session of the user creates a note that
\* reaches the remote store; the change is delivered to the subscription
\* callback.  The delivery and the callback's IndexedDB requests are not
\* postponed for ever; the user of this session does nothing.
VisibilityInit ==
  /\ DeliveryInit
  /\ idb = remote
  /\ editingNoteId = Null

\* the other session's saveNoteToFirebase(userId, noteWithVersion) lands
RemoteCreate(id) ==
  /\ left.deliveries > 0
  /\ cb.pc = "idle"
  /\ remote[id] = NoNote /\ idb[id] = NoNote
  /\ remote' = saveNoteToFirebase(
                 remote,
                 [id |-> id, content |-> "B", createdAt |-> id, updatedAt |-> id],
                 now)
  /\ UNCHANGED <<now, online, idb, queue, notes, editingNoteId, isSyncing,
                 error, idbPending, load, full, run, cb, cr, up, del, rf,
                 timers, left, hist>>

VisibilityNext ==
  \/ \E id \in Ids : RemoteCreate(id)
  \/ Deliver \/ CbMerge \/ CbSaved

\* onValue calls the listener after a change of the remote store
DeliveryDue == \E i \in Ids : remote[i] # hist.before.remote[i]

VisibilitySpec ==
  /\ VisibilityInit
  /\ [][VisibilityNext]_vars
  /\ WF_vars(DeliveryDue /\ Deliver)
  /\ WF_vars(CbMerge)
  /\ WF_vars(CbSaved)

\* --------------------------------------------------------- version history
\* versionHistory.ts on one note.  The note of this specification carries its
\* versions; a version's text stands for its (title, content) pair.  Every
\* call reads a later clock than the one before, so version ids are distinct.
\* hist.versions lists every version that was ever added, in order.
MAX_VERSIONS == 10

VersionTexts == {"", "a", "b"}

\* Array.prototype.slice(-n)
LastN(seq, n) ==
  IF Len(seq) <= n THEN seq ELSE SubSeq(seq, Len(seq) - n + 1, Len(seq))

createVersion(note, t) == [id |-> t, content |-> note.content, timestamp |-> t]

\* if (lastVersion.title === note.title && lastVersion.content === note.content)
Unchanged(note) ==
  /\ Len(note.versions) > 0
  /\ note.versions[Len(note.versions)].content = note.content

\* a history that keeps the first MAX_VERSIONS versions
addVersionKeepFirst(note, t) ==
  LET all == Append(note.versions, createVersion(note, t))
  IN  IF Unchanged(note) THEN note
      ELSE [note EXCEPT
              !.updatedAt = t,
              !.versions = IF Len(all) <= MAX_VERSIONS THEN all
                           ELSE SubSeq(all, 1, MAX_VERSIONS)]

addVersion(note, t) ==
  IF Unchanged(note) THEN note
  ELSE [note EXCEPT
          !.updatedAt = t,
          !.versions = LastN(Append(note.versions, createVersion(note, t)),
                             MAX_VERSIONS)]

\* note.versions?.find(v => v.id === versionId), NoNote when there is none
RECURSIVE FindVersion(_, _)
FindVersion(versions, versionId) ==
  IF versions = <<>> THEN NoNote
  ELSE IF Head(versions).id = versionId THEN Head(versions)
  ELSE FindVersion(Tail(versions), versionId)

restoreVersion(note, versionId, t) ==
  LET version == FindVersion(note.versions, versionId)
  IN  [addVersion(note, t) EXCEPT !.content = version.content, !.updatedAt = t]

\* Date.now() of the next call
VersionClock == Len(hist.versions) + 1

\* createNote: addVersion(newNote, 'created')
VersionInit ==
  /\ now = 1
  /\ online = TRUE
  /\ remote = EmptyStore
  /\ idb = EmptyStore
  /\ queue = <<>>
  /\ LET newNote == [id |-> 1, content |-> "", createdAt |-> 1, updatedAt |-> 1,
                     versions |-> <<>>]
     IN  /\ notes = <<addVersion(newNote, 1)>>
         /\ hist = [HistNone EXCEPT !.versions = <<createVersion(newNote, 1)>>]
  /\ editingNoteId = Null
  /\ isSyncing = FALSE
  /\ error = FALSE
  /\ timers = 0
  /\ idbPending = <<>>
  /\ load = "idle"
  /\ full = FullIdle
  /\ run = [r \in RunIds |-> RunIdle]
  /\ cb = CbIdle /\ cr = CrIdle /\ up = UpIdle /\ del = DelIdle /\ rf = RfIdle
  /\ left = LeftOf({})

VersionUnchanged ==
  UNCHANGED <<now, online, remote, idb, queue, editingNoteId, isSyncing,
              error, idbPending, load, full, run, cb, cr, up, del, rf,
              timers, left>>

\* the versions a call moves the note to, and the record of the added one
VersionStep(edited, result) ==
  /\ Len(hist.versions) < MaxVersionCalls
  /\ notes' = <<result>>
  /\ hist' = IF Unchanged(edited) THEN hist
             ELSE [hist EXCEPT
                     !.versions = Append(@, createVersion(edited, VersionClock))]
  /\ VersionUnchanged

\* updateNote: addVersion({ ...updatedNote, updatedAt: Date.now() }, 'edited')
AddVersionCall(text) ==
  LET edited == Edited(notes[1], text, VersionClock)
  IN  VersionStep(edited, addVersion(edited, VersionClock))

\* VersionHistory: restoreVersion(note, selectedVersion.id)
RestoreVersionCall(versionId) ==
  /\ FindVersion(notes[1].versions, versionId) # NoNote
  /\ VersionStep(notes[1], restoreVersion(notes[1], versionId, VersionClock))

VersionNext ==
  \/ \E text \in VersionTexts : AddVersionCall(text)
  \/ \E versionId \in 1..MaxVersionCalls : RestoreVersionCall(versionId)

VersionSpec == VersionInit /\ [][VersionNext]_vars

\* ================================================================== claims
\* the effective timestamp of the rules: updatedAt, or createdAt when absent
EffectiveTime(n) == IF n.updatedAt = 0 THEN n.createdAt ELSE n.updatedAt

\* syncWithFirebase holds the two lists it merged and the result
MergeDone == full.pc \in {"save", "push"}

\* C1: after a replay (one run of syncNotes over the operations it drained)
\* in which at least one remote call failed, the queue is not empty: when a
\* run that caught a failure returns, the queue still holds operations.
C1_FailedReplayKeepsQueue ==
  [][\A r \in RunIds :
       (run[r].pc = "clear" /\ run'[r].pc = "idle" /\ run[r].failed)
       => queue' # <<>>]_vars

\* a run that caught a failure is about to clear the queue
C1_FailedReplayReached ==
  \E r \in RunIds : run[r].pc = "clear" /\ run[r].failed /\ queue # <<>>

\* C2: while the editing marker is X, a note of the list, a step of the
\* subscription callback (whose closure holds the same marker) leaves X
\* unchanged both in the in-memory list and in the local store.
C2_DeliverySuppressed ==
  [][(cb.pc # "idle" /\ cb' # cb
      /\ cb.editingNoteId # Null /\ cb.editingNoteId = editingNoteId
      /\ cb.editingNoteId \in IdsOf(notes))
     => /\ Find(notes', cb.editingNoteId) = Find(notes, cb.editingNoteId)
        /\ idb'[cb.editingNoteId] = idb[cb.editingNoteId]]_vars

\* a delivery is being handled while the marker names a note of the list
C2_DeliveryWhileEditing ==
  /\ cb.pc = "read"
  /\ cb.editingNoteId # Null /\ cb.editingNoteId = editingNoteId
  /\ cb.editingNoteId \in IdsOf(notes)

\* C3: the local store holds A's edit of a note at time t, queued or not, and
\* the remote store holds B's edit of the note at a later time t'; after the
\* resynchronisation (queue replay, then merge) the local note and the remote
\* note both carry the time t'.
C3_LastWriterWins ==
  Quiescent =>
    \A id \in Ids :
      LET l == hist.before.idb[id]
          r == hist.before.remote[id]
      IN  (/\ l # NoNote /\ r # NoNote
           /\ l.content = "A" /\ r.content = "B"
           /\ l.updatedAt # 0 /\ r.updatedAt > l.updatedAt)
          => idb[id].updatedAt = r.updatedAt /\ remote[id].updatedAt = r.updatedAt

\* the resynchronisation has ended from such a start
C3_ConflictResynced ==
  /\ Quiescent
  /\ \E id \in Ids :
       /\ hist.before.idb[id].content = "A"
       /\ hist.before.remote[id].content = "B"
       /\ hist.before.idb[id].updatedAt # 0
       /\ hist.before.remote[id].updatedAt > hist.before.idb[id].updatedAt
       /\ hist.before.queue # <<>>
       /\ hist.before.queue[1].noteId = id
       /\ hist.before.queue[1].operation = "update"

\* C4: with no failed request, a note created offline is in the local store
\* and is one operation of the queue once createNote's work has ended; once
\* the client is online and its work has ended, exactly one remote save has
\* been made for the note and the queue is empty again.
C4_OfflineRoundTrip ==
  \A id \in hist.offlineCreated :
    (Quiescent /\ ~left.failed) =>
      IF online
      THEN hist.pushes[id] = 1 /\ queue = <<>>
      ELSE /\ idb[id] # NoNote
           /\ Cardinality({k \in 1..Len(queue) : queue[k].noteId = id}) = 1

\* a note created offline has been replayed and the client has come to rest
C4_OfflineNoteReplayed ==
  /\ online /\ Quiescent /\ ~left.failed
  /\ \E id \in hist.offlineCreated : hist.pushes[id] >= 1

\* C5: runs of syncNotes never overlap: at most one is in flight.
C5_RunsNeverOverlap ==
  Cardinality({r \in RunIds : run[r].pc # "idle"}) <= 1

\* two runs replay the same drained operations at once
C5_BothReplaying ==
  /\ \A r \in RunIds : run[r].pc = "replay"
  /\ run["runA"].syncQueue = run["runB"].syncQueue

\* C6: when createNote returns, and when updateNote or deleteNote returns
\* without an error, the local store reflects the change.
C6_StoreReflectsOnReturn ==
  [][/\ (cr.save = "idle" /\ cr'.save = "pending")
        => idb'[cr'.note.id] = cr'.note
     /\ (up.pc # "idle" /\ up'.pc = "idle" /\ ~error')
        => idb'[up.note.id] = up.note
     /\ (del.pc # "idle" /\ del'.pc = "idle" /\ ~error')
        => idb'[del.noteId] = NoNote]_vars

\* createNote has returned and its save has not been written
C6_CreateReturned ==
  cr.save = "pending" /\ idb[cr.note.id] # cr.note

\* C7: for an id in both lists mergeNotes yields the remote note when its
\* effective time is at least the local one (a tie goes to the remote note)
\* and the local note otherwise.
C7_MergeRule ==
  MergeDone =>
    \A id \in IdsOf(full.localNotes) \cap IdsOf(full.firebaseNotes) :
      LET l == Find(full.localNotes, id)
          r == Find(full.firebaseNotes, id)
          m == Find(full.mergedNotes, id)
      IN  /\ EffectiveTime(r) >= EffectiveTime(l) => m = r
          /\ EffectiveTime(r) < EffectiveTime(l) => m = l

\* a tie between two different notes, and a newer local note, have been merged
C7_TieMerged ==
  /\ MergeDone
  /\ \E id \in IdsOf(full.localNotes) \cap IdsOf(full.firebaseNotes) :
       /\ EffectiveTime(Find(full.firebaseNotes, id)) = EffectiveTime(Find(full.localNotes, id))
       /\ Find(full.firebaseNotes, id) # Find(full.localNotes, id)
       /\ Find(full.mergedNotes, id) = Find(full.firebaseNotes, id)
  /\ \E id \in IdsOf(full.localNotes) \cap IdsOf(full.firebaseNotes) :
       /\ EffectiveTime(Find(full.firebaseNotes, id)) < EffectiveTime(Find(full.localNotes, id))
       /\ Find(full.mergedNotes, id) = Find(full.localNotes, id)

\* C8: a resynchronisation started while the editing marker names X, and
\* merging while it still does and the local store holds X, keeps the local
\* copy of X in its result.
C8_ResyncSuppressed ==
  (/\ MergeDone
   /\ full.editingNoteId # Null /\ full.editingNoteId = editingNoteId
   /\ editingNoteId \in IdsOf(full.localNotes))
  => Find(full.mergedNotes, editingNoteId) = Find(full.localNotes, editingNoteId)

\* a resynchronisation has merged while the marker names a local note that
\* the remote store holds too
C8_ResyncWhileEditing ==
  /\ MergeDone
  /\ full.editingNoteId # Null /\ full.editingNoteId = editingNoteId
  /\ editingNoteId \in IdsOf(full.localNotes) \cap IdsOf(full.firebaseNotes)

\* C9: the result of mergeNotes holds exactly one note for each id of either
\* list; an id of the local list only carries the local note, an id of the
\* remote list only carries the remote note.
C9_MergeCoverage ==
  MergeDone =>
    /\ IdsOf(full.mergedNotes) = IdsOf(full.localNotes) \cup IdsOf(full.firebaseNotes)
    /\ Len(full.mergedNotes) = Cardinality(IdsOf(full.mergedNotes))
    /\ \A id \in IdsOf(full.localNotes) \ IdsOf(full.firebaseNotes) :
         Find(full.mergedNotes, id) = Find(full.localNotes, id)
    /\ \A id \in IdsOf(full.firebaseNotes) \ IdsOf(full.localNotes) :
         Find(full.mergedNotes, id) = Find(full.firebaseNotes, id)

\* a merge of a local-only note with a remote-only note
C9_DisjointMerged ==
  /\ MergeDone
  /\ IdsOf(full.localNotes) \ IdsOf(full.firebaseNotes) # {}
  /\ IdsOf(full.firebaseNotes) \ IdsOf(full.localNotes) # {}

\* C10: a note whose deleteNote returned before the client was restarted is
\* absent from the list and from the local store once the restarted client
\* has come to rest.
C10_DeleteSurvivesRestart ==
  Quiescent =>
    \A id \in hist.gone : idb[id] = NoNote /\ id \notin IdsOf(notes)

\* the client was restarted after a delete and has come to rest
C10_RestartedAfterDelete ==
  Quiescent /\ hist.gone # {}

\* C11: no queued operation leaves the queue before a replay has applied it
\* to the remote store (so that every queued operation is applied at least
\* once when the network and the remote store come back).
C11_AppliedBeforeRemoved ==
  [][\A k \in 1..Len(queue) :
       (\A j \in 1..Len(queue') : ~SameKey(queue'[j], queue[k]))
       => queue[k] \in hist.applied]_vars

\* a run is about to clear a queue that holds an operation not yet applied
C11_ClearingUnapplied ==
  \E r \in RunIds :
    /\ run[r].pc = "clear" /\ IdbHead(r)
    /\ \E k \in 1..Len(queue) : queue[k] \notin hist.applied

\* the note the rule of the callback picks between a local and a remote note
DeliveryPick(l, r) ==
  IF EffectiveTime(r) >= EffectiveTime(l) THEN r ELSE l

\* C12: for a delivered remote note whose id is in the local store and is not
\* the editing id, the callback puts in the list the remote note when its
\* effective time is at least the local one and the local note otherwise,
\* and its loop writes every such pick to the local store.
C12_DeliveryRule ==
  [][/\ (cb.pc = "read" /\ cb'.pc # "read")
        => /\ \A id \in IdsOf(cb.updatedNotes) :
                (idb[id] # NoNote /\ id # cb.editingNoteId)
                => /\ Find(notes', id) = DeliveryPick(idb[id], Find(cb.updatedNotes, id))
                   /\ Find(cb'.mergedNotes, id) = Find(notes', id)
           /\ cb'.pc = "save"
              => \A j \in 1..(cb'.i - 1) : cb'.mergedNotes[j].id = cb.editingNoteId
     /\ (cb.pc = "save" /\ cb' # cb /\ left' = left)
        => /\ idb'[cb.mergedNotes[cb.i].id] = cb.mergedNotes[cb.i]
           /\ LET last == IF cb'.pc = "save" THEN cb'.i - 1 ELSE Len(cb.mergedNotes)
              IN  \A j \in (cb.i + 1)..last :
                    cb.mergedNotes[j].id = cb.editingNoteId]_vars

\* the callback has put a different remote note of equal or later time in
\* the list and is about to write it to the local store
C12_RemoteAdopted ==
  /\ cb.pc = "save"
  /\ LET n == cb.mergedNotes[cb.i]
     IN  /\ n = Find(cb.updatedNotes, n.id)
         /\ idb[n.id] # NoNote /\ idb[n.id] # n
         /\ Find(notes, n.id) = n

\* C13: when the callback has handled a delivery with no editing marker set
\* and the local store holds a note newer than the delivered one, the remote
\* store carries the local note's content and time.
C13_KeptLocalRepushed ==
  [][(cb.pc # "idle" /\ cb'.pc = "idle"
      /\ cb.editingNoteId = Null /\ editingNoteId = Null)
     => \A id \in IdsOf(cb.updatedNotes) :
          (/\ idb'[id] # NoNote
           /\ EffectiveTime(idb'[id]) > EffectiveTime(Find(cb.updatedNotes, id)))
          => /\ remote'[id].content = idb'[id].content
             /\ EffectiveTime(remote'[id]) = EffectiveTime(idb'[id])]_vars

\* the callback is writing a local note it kept as newer than the delivered
\* one, with no editing marker set
C13_KeptLocal ==
  /\ cb.pc = "save" /\ cb.editingNoteId = Null /\ editingNoteId = Null
  /\ LET n == cb.mergedNotes[cb.i]
     IN  /\ Find(cb.updatedNotes, n.id) # NoNote
         /\ EffectiveTime(n) > EffectiveTime(Find(cb.updatedNotes, n.id))
         /\ idb[n.id] = n

\* C14: a note that is in the local store and absent from the remote
\* snapshots delivered is, at every point of the handling of the deliveries,
\* still in the local store and in the list with the same value.
C14_CallbackNeverDeletes ==
  \A id \in Ids :
    (hist.before.idb[id] # NoNote /\ hist.before.remote[id] = NoNote)
    => /\ idb[id] = hist.before.idb[id]
       /\ Find(notes, id) = hist.before.idb[id]

\* a delivery that lacks a local note and holds another has been handled
C14_PartialSnapshotHandled ==
  /\ cb.pc = "idle" /\ left.deliveries = 0
  /\ \E id \in Ids : hist.before.idb[id] # NoNote /\ hist.before.remote[id] = NoNote
  /\ \E id \in Ids : hist.before.idb[id] # NoNote /\ hist.before.remote[id] # NoNote


\* the operations the previous user's session left in the queue
LeftByPreviousOwner ==
  {hist.before.queue[k] : k \in 1..Len(hist.before.queue)}

\* C15: pending operations are scoped by owner: an operation enqueued while
\* another user was the owner is never applied by syncNotes to the remote
\* partition of the user now signed in, and a sync run of the user now
\* signed in neither replays nor removes the previous user's operations.
C15_QueueScopedByOwner ==
  /\ hist.applied \cap LeftByPreviousOwner = {}
  /\ \A r \in RunIds :
       run[r].pc \in {"replay", "clear"}
       => \A k \in 1..Len(run[r].syncQueue) :
            run[r].syncQueue[k] \notin LeftByPreviousOwner
  /\ \A item \in LeftByPreviousOwner : \E k \in 1..Len(queue) : queue[k] = item

\* the new user's run has written the previous user's note into the new
\* user's partition, or deleted the new user's remote note, and emptied the queue
C15_ForeignOperationApplied ==
  /\ \E item \in LeftByPreviousOwner \cap hist.applied :
       IF item.operation = "delete"
       THEN hist.before.remote[item.noteId] # NoNote /\ remote[item.noteId] = NoNote
       ELSE remote[item.noteId].content = "P"
  /\ queue = <<>>


\* C16: the local store keeps one record per (owner, id) pair: a save or a
\* delete made in one user's session never changes what
\* getNotesFromIndexedDB returns for another user, also when both users have
\* a note with the same id.
C16_OwnersIndependent ==
  [][hist'.userId = hist.userId
     => \A u \in Users \ {hist.userId} :
          getNotesFromIndexedDB(RecordsOf(idb', u))
            = getNotesFromIndexedDB(RecordsOf(idb, u))]_vars

\* the signed-in user is about to write or delete under an id whose record
\* belongs to the other user
C16_SameIdOtherOwner ==
  \E i \in Ids : idb[i] # NoRecord /\ idb[i].userId # hist.userId


\* C17: applying the same create, update or delete operation to the remote
\* store twice leaves the remote store as applying it once did, for every
\* note the queue can carry, a note without updatedAt included: a replay of
\* an operation that was applied before (nothing else having written to the
\* remote store in between) does not change the remote store.
C17_IdempotentPush ==
  [][\A r \in RunIds :
       (/\ run[r].pc = "replay"
        /\ run'[r] # run[r]
        /\ run[r].syncQueue[run[r].i] \in hist.applied)
       => remote' = remote]_vars

\* a run is about to apply an operation that another run applied, at a
\* later time
C17_SecondApplication ==
  \E r \in RunIds :
    /\ run[r].pc = "replay"
    /\ run[r].syncQueue[run[r].i] \in hist.applied
    /\ now > hist.before.queue[1].timestamp


\* the queue holds an operation of this kind for this note id
Queued(q, operation, noteId) ==
  \E k \in 1..Len(q) : q[k].operation = operation /\ q[k].noteId = noteId

\* the step is the rejection of the call's remote request
CreateRemoteRejected == cr.push = "remote" /\ cr'.push = "retry"
UpdateRemoteRejected == up.pc = "remote" /\ up'.pc = "enq"
DeleteRemoteRejected == del.pc = "remote" /\ del'.pc = "enq"

\* the step ends the addToSyncQueue call made after such a rejection
CreateFallbackEnds == cr.push = "retry" /\ cr'.push = "idle"
UpdateFallbackEnds == up.pc = "enq" /\ up.isOnline /\ up'.pc # "enq"
DeleteFallbackEnds == del.pc = "enq" /\ del.isOnline /\ del'.pc # "enq"

\* the step has no failed IndexedDB transaction
NoIdbFault == left'.faults = left.faults

\* the rejection itself sets no error and changes neither list nor store,
\* and the call goes on to addToSyncQueue
RejectionFrame ==
  /\ (CreateRemoteRejected \/ UpdateRemoteRejected \/ DeleteRemoteRejected)
     => /\ error' = error /\ notes' = notes /\ idb' = idb /\ queue' = queue
        /\ Len(idbPending') = Len(idbPending) + 1
  /\ CreateRemoteRejected => idbPending'[Len(idbPending')] = "crEnq"
  /\ UpdateRemoteRejected => idbPending'[Len(idbPending')] = "up"
  /\ DeleteRemoteRejected => idbPending'[Len(idbPending')] = "del"

CreateLocalWriteFails == cr.save = "pending" /\ cr'.save = "idle" /\ ~NoIdbFault
UpdateLocalWriteFails == up.pc = "save" /\ up'.pc = "refresh"
DeleteLocalWriteFails == del.pc = "del" /\ del'.pc = "idle" /\ ~NoIdbFault

\* updateNote returns from its catch block, the note it wrote not stored
UpdateCatchReturns ==
  up.pc = "refresh" /\ up'.pc = "idle" /\ idb'[up.note.id] # up.note

\* the list holds this note
Listed(list, n) == \E k \in 1..Len(list) : list[k] = n

\* C19: if the local-store write of createNote, updateNote or deleteNote
\* fails, the failure is reported (the error is set, and still set when the
\* call returns) and the list is rolled back: the note createNote added is
\* not in the list, the list does not show updateNote's new value when it
\* returns, and the note deleteNote removed is in the list again.
C19_LocalFailureRolledBack ==
  [][/\ CreateLocalWriteFails => error' /\ ~Listed(notes', cr.note)
     /\ UpdateLocalWriteFails => error'
     /\ UpdateCatchReturns => error' /\ ~Listed(notes', up.note)
     /\ DeleteLocalWriteFails => error' /\ Listed(notes', del.deletedNote)]_vars

\* createNote's write to the notes store has failed and the note it added
\* is still in the list
C19_UnsavedNoteListed ==
  /\ cr.save = "idle" /\ cr.note # NoNote /\ left.failed /\ error
  /\ idb[cr.note.id] = NoNote
  /\ Listed(notes, cr.note)


\* C20: if the local delete (deleteNoteFromIndexedDB) fails inside
\* deleteNote, then when deleteNote returns the list again holds the note
\* that was removed from it, with the value it had before the call.
C20_FailedDeleteRestores ==
  [][DeleteLocalWriteFails
     => /\ del.deletedNote # NoNote /\ del.deletedNote.id = del.noteId
        /\ Listed(notes', del.deletedNote)
        /\ idb' = idb]_vars

\* deleteNote has removed the note from the list and its local delete is
\* the next IndexedDB request, with a failure possible
C20_LocalDeletePending ==
  /\ del.pc = "del" /\ IdbHead("del") /\ left.faults > 0
  /\ ~Listed(notes, del.deletedNote)
  /\ idb[del.noteId] = del.deletedNote


\* the step completes an addToSyncQueue call of createNote, updateNote or
\* deleteNote
EnqueueCompletes ==
  /\ NoIdbFault
  /\ \/ IdbHead("crEnq") /\ idbPending' = Tail(idbPending)
     \/ up.pc = "enq" /\ up'.pc # "enq"
     \/ del.pc = "enq" /\ del'.pc # "enq"

\* C21: each addToSyncQueue call increases the number of queued operations
\* by exactly one and leaves every previously queued operation in place, also
\* when two operations for the same note id are enqueued at the same clock
\* reading.
C21_EnqueueAppends ==
  [][EnqueueCompletes
     => /\ Len(queue') = Len(queue) + 1
        /\ \A k \in 1..Len(queue) : \E j \in 1..Len(queue') : queue'[j] = queue[k]]_vars

\* updateNote is about to enqueue under the key of an operation already queued
C21_SameKeyPending ==
  /\ up.pc = "enq" /\ IdbHead("up")
  /\ \E k \in 1..Len(queue) :
       queue[k].timestamp = now /\ queue[k].noteId = up.note.id

\* the position of the last call that enqueued this record, 0 if none
RECURSIVE LastIndex(_, _)
LastIndex(seq, x) ==
  IF seq = <<>> THEN 0
  ELSE IF seq[Len(seq)] = x THEN Len(seq)
  ELSE LastIndex(SubSeq(seq, 1, Len(seq) - 1), x)

\* the step is a run's getSyncQueue returning a queue that is not empty
Drains(r) == run[r].pc = "read" /\ run'[r].pc = "replay"

\* the step is the remote call of the run's current operation resolving
Applies(r) == run[r].pc = "replay" /\ run'[r] # run[r] /\ hist'.applied # hist.applied

\* getSyncQueue hands the run every stored record and removes none, and the
\* run applies the records one by one from the first to the last
DrainsAllAndAppliesInTurn ==
  \A r \in RunIds :
    /\ Drains(r) => run'[r].syncQueue = queue /\ queue' = queue /\ run'[r].i = 1
    /\ Applies(r)
       => /\ hist'.applied = hist.applied \cup {run[r].syncQueue[run[r].i]}
          /\ \/ run'[r].pc = "replay" /\ run'[r].i = run[r].i + 1
             \/ run'[r].pc = "clear" /\ run[r].i = Len(run[r].syncQueue)

\* C22 as stated: getSyncQueue returns all queued operations oldest first,
\* in the order they were enqueued, and removes none of them; syncNotes
\* applies them to the remote store in that order.
C22_DrainInEnqueueOrder ==
  [][/\ DrainsAllAndAppliesInTurn
     /\ \A r \in RunIds :
          Drains(r)
          => \A j, k \in 1..Len(queue) :
               j < k => LastIndex(hist.enqueued, queue[j])
                          < LastIndex(hist.enqueued, queue[k])]_vars

\* C22: getSyncQueue returns every stored operation in key order, that is
\* by non-decreasing enqueue time (operations enqueued at the same clock
\* reading come back by note id, not by call order), and removes none;
\* syncNotes applies them to the remote store in that order, so operations
\* on the same note reach the remote store in the order they were made.
C22_DrainOldestFirst ==
  [][/\ DrainsAllAndAppliesInTurn
     /\ \A r \in RunIds :
          Drains(r)
          => \A j, k \in 1..Len(queue) :
               j < k
               => /\ queue[j].timestamp <= queue[k].timestamp
                  /\ queue[j].noteId = queue[k].noteId
                     => LastIndex(hist.enqueued, queue[j])
                          < LastIndex(hist.enqueued, queue[k])]_vars

\* a run has drained two operations on the same note
C22_TwoOperationsDrained ==
  \E r \in RunIds :
    /\ run[r].pc = "replay" /\ Len(run[r].syncQueue) = 2
    /\ run[r].syncQueue[1].noteId = run[r].syncQueue[2].noteId
    /\ hist.enqueued = run[r].syncQueue

\* the ids of the merged set: every id either side held when the
\* synchronization started
MergedIds ==
  {i \in Ids : hist.before.idb[i] # NoNote \/ hist.before.remote[i] # NoNote}

\* C23: after a full synchronization in which no remote call fails and
\* nothing else changes local or remote state, both sides have converged:
\* every id of the merged set is in the local store and in the remote store
\* with the same updatedAt and content.
C23_Converged ==
  full.pc = "idle"
  => \A i \in MergedIds :
       /\ idb[i] # NoNote /\ remote[i] # NoNote
       /\ idb[i].updatedAt = remote[i].updatedAt
       /\ idb[i].content = remote[i].content

\* the synchronization is pushing a note that only the local store held and
\* that carries no updatedAt
C23_PushingUntimedLocalNote ==
  /\ full.pc = "push"
  /\ \E i \in MergedIds :
       /\ hist.before.remote[i] = NoNote
       /\ hist.before.idb[i].updatedAt = 0
       /\ full.mergedNotes[full.i] = hist.before.idb[i]

\* C24: auxiliary attributes pass through unmodified: a note pushed with
\* saveNoteToFirebase and read back with loadNotesFromFirebase or delivered
\* by subscribeToNotes has the same isShared, shareId and versions as the
\* note that was pushed, and merging and writing to the local store leave
\* them unchanged.
C24_AuxiliaryPreserved ==
  \A i \in Ids :
    hist.before.idb[i] # NoNote
    => /\ idb[i] # NoNote /\ idb[i].aux = hist.before.idb[i].aux
       /\ Find(notes, i).aux = hist.before.idb[i].aux
       /\ remote[i] # NoNote
          => Find(loadNotesFromFirebase(remote), i).aux = hist.before.idb[i].aux

\* a note whose isShared is set has been pushed and delivered back, and the
\* callback is writing the delivered copy to the local store
C24_SharedNoteDelivered ==
  /\ cb.pc = "save"
  /\ \E i \in Ids :
       /\ hist.before.idb[i] # NoNote
       /\ hist.before.idb[i].aux.isShared = "true"
       /\ Find(cb.updatedNotes, i) # NoNote

\* a note's updatedAt, when present, is not before its createdAt
WellTimed(n) == n.updatedAt = 0 \/ n.updatedAt >= n.createdAt

HasReadQueue(r) == run[r].pc # "read"

\* C26: a cold start while online, with no connectivity change afterwards,
\* starts at most one synchronization attempt: at most one syncNotes run
\* reads the queue.
C26_OneSyncOnColdStart ==
  Cardinality({r \in RunIds : HasReadQueue(r)}) <= 1

\* both calls made at the mount hold the same drained queue
C26_BothRunsDrained ==
  /\ \A r \in RunIds : run[r].pc = "replay"
  /\ run["runA"].syncQueue = run["runB"].syncQueue

\* the other session has created this note and it is in the remote store
CreatedElsewhere(id) == remote[id] # NoNote /\ hist.before.remote[id] = NoNote

\* C27: when another session of the user creates a note and the note
\* reaches the remote store, this session, online and subscribed, eventually
\* has the note in its displayed list and in its local store, without a
\* restart.
C27_RemoteNoteBecomesVisible ==
  \A id \in Ids :
    CreatedElsewhere(id) ~> (Find(notes, id) # NoNote /\ idb[id] # NoNote)

\* the snapshot that holds the other session's note has been delivered and
\* the callback has finished with it
C27_DeliveryHandled ==
  /\ cb.pc = "idle" /\ left.deliveries = 0
  /\ \E id \in Ids : CreatedElsewhere(id) /\ Find(notes, id) = NoNote /\ idb[id] = NoNote

C29_NoDuplicateVersions ==
  LET versions == notes[1].versions
  IN  \A j, k \in 1..Len(versions) :
        j # k => versions[j].content # versions[k].content

\* the note was edited and then edited back: its first and third versions
\* hold the same text
C29_TextSavedTwice ==
  /\ Len(notes[1].versions) = 3
  /\ notes[1].versions[1].content = notes[1].versions[3].content
  /\ notes[1].versions[1].id # notes[1].versions[3].id



\* ------------------------------------------------- successive saves of edits
\* A session whose notes are synchronised and which the user edits and saves
\* MaxSaves times, online or offline, with no failing request.
EditInit ==
  /\ now = 1
  /\ online \in BOOLEAN
  /\ remote \in ResyncStores
  /\ idb = remote
  /\ queue = <<>>
  /\ notes = getNotesFromIndexedDB(idb)
  /\ editingNoteId = Null
  /\ isSyncing = FALSE
  /\ error = FALSE
  /\ timers = 0
  /\ idbPending = <<>>
  /\ load = "idle"
  /\ full = FullIdle
  /\ run = [r \in RunIds |-> RunIdle]
  /\ cb = CbIdle /\ cr = CrIdle /\ up = UpIdle /\ del = DelIdle /\ rf = RfIdle
  /\ left = [LeftOf({"net", "ticks"}) EXCEPT !.ops = MaxSaves]
  /\ hist = HistNone

EditNext ==
  \/ \E i \in 1..Len(notes) : \E c \in LocalContents : UpdateNote(notes[i], c)
  \/ UpdateSaved \/ UpdatePushed \/ UpdateEnqueued
  \/ ClearEditing
  \/ LoadDone
  \/ \E r \in RunIds : RunRead(r) \/ RunReplay(r) \/ RunCleared(r)
  \/ FullLoaded \/ FullMerge \/ FullSaved \/ FullPushed
  \/ Tick \/ GoOnline

EditSpec == EditInit /\ [][EditNext]_vars

\* updateNote has marked its note and its save has not completed
SaveInProgress ==
  /\ up.pc \in {"save", "remote", "enq"}
  /\ editingNoteId = up.note.id

\* C30 as stated: from the moment updateNote(X) marks X as being edited until
\* the save of that edit has completed, the editing marker is never cleared:
\* a clear-timer armed by an earlier save does not reset it while the later
\* edit is still in progress.
C30_MarkerKeptWhileSaving ==
  [][(SaveInProgress /\ up' = up) => editingNoteId' # Null]_vars

\* an edit is being saved while the clear-timer of an earlier save is armed
C30_EarlierTimerArmed == SaveInProgress /\ timers > 0


\* the step is a run's clearSyncQueue resolving
Clears(r) == run[r].pc = "clear" /\ run'[r].pc = "idle" /\ queue' # queue

\* the queued operations the run did not read: they were added after its
\* getSyncQueue
AddedSinceRead(r) ==
  {k \in 1..Len(queue) : ~Listed(run[r].syncQueue, queue[k])}

\* C31: an operation added to the queue while a syncNotes run is in flight
\* (after the run read the queue and before it clears it) is still in the
\* queue when the run finishes: clearing removes only operations the run
\* itself applied to the remote store.
C31_LateOperationKept ==
  [][\A r \in RunIds :
       Clears(r) => \A k \in AddedSinceRead(r) : Listed(queue', queue[k])]_vars

\* a run is about to clear a queue that holds an operation it has not read
C31_AddedDuringRun ==
  \E r \in RunIds : run[r].pc = "clear" /\ IdbHead(r) /\ AddedSinceRead(r) # {}


\* deleteNote has removed the note from the local store
LocallyDeleted(id) ==
  /\ idb[id] = NoNote
  /\ \/ id \in hist.deletedOk
     \/ del.noteId = id /\ del.pc \in {"remote", "enq"}

\* the next local write of the full resynchronisation is the note id, which
\* its read of the local store held
FullWritesNext(id) ==
  /\ full.pc = "save" /\ IdbHead("full")
  /\ full.mergedNotes[full.i].id = id
  /\ id \in IdsOf(full.localNotes)

\* the next local write of the subscription callback is the note id (the
\* callback writes only notes its read of the local store held)
CbWritesNext(id) ==
  /\ cb.pc = "save" /\ IdbHead("cb")
  /\ cb.mergedNotes[cb.i].id = id

\* C32: a note deleted locally is never written back by a concurrent
\* reconciliation: a subscription callback or full resynchronisation that
\* read the local store before deleteNote(id) removed the note does not put
\* id into the local store again.
C32_DeletedNotWrittenBack ==
  [][\A id \in Ids :
       (LocallyDeleted(id) /\ (FullWritesNext(id) \/ CbWritesNext(id)))
       => idb'[id] = NoNote]_vars

\* a reconciliation that read the note is about to write while the note is
\* deleted
C32_ReadBeforeDelete ==
  \E id \in Ids : LocallyDeleted(id) /\ (FullWritesNext(id) \/ CbWritesNext(id))


\* the step starts the remote call of the mutation
CreateRemoteStarts == cr.push # "remote" /\ cr'.push = "remote"
UpdateRemoteStarts == up.pc # "remote" /\ up'.pc = "remote"
DeleteRemoteStarts == del.pc # "remote" /\ del'.pc = "remote"

\* updateNote and deleteNote start the remote call in the step that
\* acknowledges the local write, and neither call nor enqueue after a failed
\* local write
AwaitedLocalWrites ==
  /\ UpdateRemoteStarts => up.pc = "save" /\ idb'[up.note.id] = up.note
  /\ DeleteRemoteStarts => del.pc = "del" /\ idb'[del.noteId] = NoNote
  /\ UpdateLocalWriteFails => up'.pc \notin {"remote", "enq"}
  /\ DeleteLocalWriteFails => del'.pc \notin {"remote", "enq"}

\* C33: in createNote, updateNote and deleteNote the remote call for a
\* mutation starts only after the local-store write for that mutation has
\* been acknowledged; if the local write fails, no remote call is made and no
\* operation is enqueued for that mutation.
C33_RemoteAfterLocalAck ==
  [][/\ AwaitedLocalWrites
     /\ CreateRemoteStarts => cr'.save = "idle" /\ idb'[cr'.note.id] = cr'.note
     /\ CreateLocalWriteFails => cr'.push = "idle"]_vars

\* createNote's remote call is in flight before its local write has completed
C33_RemoteCallBeforeAck ==
  cr.push = "remote" /\ cr.save = "pending" /\ idb[cr.note.id] = NoNote


\* ------------------------------------------------ replays with rejections
\* The queue is filled as in QueueSpec and one call of syncNotes replays it;
\* the remote call of any drained operation may be rejected.
ReplayInit ==
  /\ now = 1
  /\ online = TRUE
  /\ remote = EmptyStore
  /\ idb = EmptyStore
  /\ queue = <<>>
  /\ notes = <<>>
  /\ editingNoteId = Null
  /\ isSyncing = FALSE
  /\ error = FALSE
  /\ timers = 0
  /\ idbPending = <<>>
  /\ load = "idle"
  /\ full = FullIdle
  /\ run = [r \in RunIds |-> RunIdle]
  /\ cb = CbIdle /\ cr = CrIdle /\ up = UpIdle /\ del = DelIdle /\ rf = RfIdle
  /\ left = LeftOf({"ops", "ticks", "api", "fails"})
  /\ hist = HistNone

ReplayNext ==
  \/ QueueNext
  \/ \E r \in RunIds : RunReplayFailed(r)

ReplaySpec == ReplayInit /\ [][ReplayNext]_vars

\* the step is the remote call of the run's current operation rejecting
ReplayRejected(r) ==
  /\ run[r].pc = "replay"
  /\ run'[r] # run[r]
  /\ left'.fails < left.fails

\* C34: in syncNotes the failure of the remote call for one drained operation
\* does not abort the run: the run goes on to the remote call of the next
\* drained operation, in order, and to clearSyncQueue only after the last.
C34_FailureDoesNotAbort ==
  [][\A r \in RunIds :
       ReplayRejected(r) =>
         /\ run'[r].syncQueue = run[r].syncQueue
         /\ IF run[r].i < Len(run[r].syncQueue)
            THEN run'[r].pc = "replay" /\ run'[r].i = run[r].i + 1
            ELSE run'[r].pc = "clear"]_vars

\* the remote call of the first of two drained operations was rejected and
\* the second has been applied
C34_LaterOperationApplied ==
  \E r \in RunIds :
    /\ run[r].pc = "clear" /\ run[r].failed
    /\ Len(run[r].syncQueue) = 2
    /\ run[r].syncQueue[1] \notin hist.applied
    /\ run[r].syncQueue[2] \in hist.applied


\* ------------------------------------------ the three merges side by side
\* syncWithFirebase, the subscription callback and refreshNotes have each
\* been handed the same remote notes and are about to read the same local
\* store; no note is being edited and nothing is written in between.
ChoiceInit ==
  /\ now = MaxClock
  /\ online = TRUE
  /\ remote \in ResyncStores
  /\ idb \in ResyncStores
  /\ queue = <<>>
  /\ notes = getNotesFromIndexedDB(idb)
  /\ editingNoteId = Null
  /\ isSyncing = FALSE
  /\ error = FALSE
  /\ timers = 0
  /\ \E first, second \in {"full", "cb", "rf"} :
       /\ first # second
       /\ idbPending = <<first, second>> \o
            SelectSeq(<<"full", "cb", "rf">>, LAMBDA p : p \notin {first, second})
  /\ load = "idle"
  /\ full = [FullIdle EXCEPT !.pc = "readLocal",
                             !.firebaseNotes = loadNotesFromFirebase(remote)]
  /\ run = [r \in RunIds |-> RunIdle]
  /\ cb = [CbIdle EXCEPT !.pc = "read",
                         !.updatedNotes = loadNotesFromFirebase(remote)]
  /\ cr = CrIdle /\ up = UpIdle /\ del = DelIdle
  /\ rf = [RfIdle EXCEPT !.pc = "read", !.isOnline = TRUE]
  /\ left = LeftOf({})
  /\ hist = [HistNone EXCEPT
               !.before = [idb |-> idb, remote |-> remote, queue |-> queue]]

ChoiceNext == FullMerge \/ CbMerge \/ RfRead \/ RfLoaded

ChoiceSpec == ChoiceInit /\ [][ChoiceNext]_vars

\* each of the three paths holds the result of its merge
AllMerged == full.pc = "save" /\ cb.pc = "save" /\ rf.pc = "save"

\* C35: the three reconciliation paths agree: for every pair of a local and
\* a remote note with the same id (and no suppression) mergeNotes, the
\* subscription callback and refreshNotes choose the same winner, and on
\* equal timestamps all three choose the remote note.
C35_PathsAgree ==
  AllMerged =>
    \A id \in Ids :
      LET l == hist.before.idb[id]
          r == Find(loadNotesFromFirebase(hist.before.remote), id)
          m == Find(full.mergedNotes, id)
          c == Find(cb.mergedNotes, id)
          f == Find(rf.mergedNotes, id)
      IN  (l # NoNote /\ r # NoNote) =>
            /\ m = c /\ c = f
            /\ m \in {l, r}
            /\ EffectiveTime(l) = EffectiveTime(r) => m = r

\* the three paths have merged a tie between two different notes and a pair
\* whose local note is newer
C35_TieAndNewerLocalMerged ==
  /\ AllMerged
  /\ \E id \in Ids :
       /\ idb[id] # NoNote /\ remote[id] # NoNote /\ idb[id] # remote[id]
       /\ EffectiveTime(idb[id]) = EffectiveTime(remote[id])
       /\ Find(rf.mergedNotes, id) = remote[id]
  /\ \E id \in Ids :
       /\ idb[id] # NoNote /\ remote[id] # NoNote
       /\ EffectiveTime(idb[id]) > EffectiveTime(remote[id])
       /\ Find(cb.mergedNotes, id) = idb[id]


\* the step is deleteNote returning, from its try block or from its catch
DeleteNoteReturns == del.pc # "idle" /\ del'.pc = "idle"

\* C36: when deleteNote returns, whether it succeeded or failed at any step
\* (local delete, remote delete, enqueue), the note id is in the displayed
\* list if and only if it is still in the local store.
C36_ListMatchesStoreOnReturn ==
  [][DeleteNoteReturns
     => (del.noteId \in IdsOf(notes') <=> idb'[del.noteId] # NoNote)]_vars

\* deleteNote has removed the note from the local store and its enqueue is
\* about to fail
C36_EnqueueFailsAfterLocalDelete ==
  /\ del.pc = "enq" /\ IdbHead("del")
  /\ idb[del.noteId] = NoNote
  /\ del.noteId \notin IdsOf(notes)
  /\ left.faults > 0


\* ------------------------------------------------- syncNotes while offline
\* The session is offline: operations are queued as in QueueSpec and the
\* caller of the hook calls syncNotes.
OfflineInit ==
  /\ now = 1
  /\ online = FALSE
  /\ remote \in {EmptyStore,
                 [EmptyStore EXCEPT ![1] = [id |-> 1, content |-> "A",
                                            createdAt |-> 1, updatedAt |-> 1]]}
  /\ idb = remote
  /\ queue = <<>>
  /\ notes = getNotesFromIndexedDB(idb)
  /\ editingNoteId = Null
  /\ isSyncing = FALSE
  /\ error = FALSE
  /\ timers = 0
  /\ idbPending = <<>>
  /\ load = "idle"
  /\ full = FullIdle
  /\ run = [r \in RunIds |-> RunIdle]
  /\ cb = CbIdle /\ cr = CrIdle /\ up = UpIdle /\ del = DelIdle /\ rf = RfIdle
  /\ left = LeftOf({"ops", "ticks", "api"})
  /\ hist = HistNone

OfflineNext ==
  \/ \E operation \in {"create", "update", "delete"}, noteId \in Ids :
       QueueAdd(operation, noteId)
  \/ Tick
  \/ SyncNotesOffline

OfflineSpec == OfflineInit /\ [][OfflineNext]_vars

\* the step is a call of syncNotes made while the session is offline
OfflineSyncCall == ~online /\ left'.api < left.api

Replaying(r) == run[r].pc \in {"replay", "clear"}

\* C38: the isSyncing flag is true in every state in which a syncNotes run
\* with a non-empty queue is between reading the queue and finishing, and
\* false in every state in which no run is in flight.
C38_FlagTracksRuns ==
  /\ (\E r \in RunIds : Replaying(r)) => isSyncing
  /\ (\A r \in RunIds : run[r].pc = "idle") => ~isSyncing

\* one run has finished while another is still replaying a queue
C38_RunOutlivesAnother ==
  \E r, other \in RunIds :
    /\ Replaying(r) /\ run[r].syncQueue # <<>>
    /\ run[other].pc = "idle"
    /\ ~isSyncing
====
